---- MODULE Spec2Model ----
(***************************************************************************)
(* Martingale ladder trading engine (alrexn/howtrader).                    *)
(*                                                                         *)
(* Part W: the per-symbol strategy worker of src/DAC1.8_test.py            *)
(*         (MartingaleStrategy, get_order_with_lock) against an exchange   *)
(*         that answers every call with success, rejection or exception.   *)
(* Part R: the recovery pass and the event-driven executor of              *)
(*         src/project/account_executor.py.                                *)
(*                                                                         *)
(* Sizes are counted in lots (minSz = 1 lot, d_minSz = 0), prices in       *)
(* ticks, confidence scores in hundredths.                                 *)
(***************************************************************************)
EXTENDS Integers, Sequences, FiniteSets, TLC

VARIABLES
    \* ---- Part W: worker and exchange ----
    w,              \* the worker thread: position in the code and its locals
    stop_flag,      \* self.stop_flag (threading.Event)
    stop_event,     \* self.stop_event: TRUE = open a new cycle after a full close
    shutdown_event, \* the process-wide kill switch
    command_queue,  \* the worker's inbound command queue
    x,              \* the exchange: position, the sellid order, live ADD orders
    h               \* history of what was submitted (observation only)

varsW == <<w, stop_flag, stop_event, shutdown_event, command_queue, x, h>>

VARIABLES
    \* ---- Part R: account executor, its recovery pass and its events ----
    ae,             \* AccountExecutor with its one MartinManager and OrderManager
    xch,            \* what main_engine knows of the exchange: position, orders
    evq,            \* the event engine's queue of order and trade events
    obs             \* observation: what the executor sent and when

varsR == <<ae, xch, evq, obs>>

VARIABLES
    \* ---- Part M: main() of the worker program ----
    orch,           \* the main thread: where it is, how long it has waited in
                    \* a join, whether the worker is still in strategies
    lad             \* two calls of the ladder placement on the same inputs

VARIABLES
    \* ---- Part C: threads that share one object ----
    gl,             \* global_lock and the threads inside get_order_with_lock
    cq,             \* the command queues of the workers and what went through
    fn,             \* one call of calculate_next_action: what went in and out
    tm              \* the timer thread of the executor: where it is

varsC == <<gl, cq, fn, tm>>
varsM == <<orch, lad, varsC>>
vars == <<varsW, varsR, varsM>>

(***************************************************************************)
(* Instrument, parameters and bounds                                       *)
(***************************************************************************)
minSz == 1              \* one lot
ctVal == 500            \* contract value
first_margin == 10000
lever == 10
adding_number == 2
NotionalCap == 100000   \* the constant of self.maxsz
RetryLimit == 5         \* retry_count > 5 trips the kill switch
StopJoinTimeout == 10   \* main(), command stop: join(timeout=10)
RetryJoinTimeout == 5   \* main(), command stop: join(timeout=5)
TickSeconds == 5        \* the step of the clock of main()
PositionRetryLimit == 100   \* get_position_info: retry_count >= 100
PxLow == 80
PxHigh == 100
MaxPos == 4             \* the position never exceeds MaxPos lots
MaxQueryCalls == 8      \* get_order calls followed within one status query
MaxQueue == 1           \* commands waiting in the queue
MaxMinLots == 2         \* one-lot market orders counted in one get_position_info

Prices == {PxLow, PxHigh}
NoneResult == [st |-> "None", sz |-> 0]
NoOrder == [st |-> "none", sz |-> 0, acc |-> 0, avg |-> 0]
NoSub == [kind |-> "none", sz |-> 0, path |-> "none", pos |-> 0, maxsz |-> 0,
          sawNone |-> FALSE, cSell |-> FALSE, cAdds |-> "none"]

Min(a, b) == IF a <= b THEN a ELSE b
Max(a, b) == IF a >= b THEN a ELSE b

\* Python's round() of the quotient a/b to an integer (ties go to the even one).
RoundDiv(a, b) ==
    LET q == a \div b
        r == a % b
    IN  IF 2 * r < b THEN q
        ELSE IF 2 * r > b THEN q + 1
        ELSE IF q % 2 = 0 THEN q ELSE q + 1

\* self.maxsz = round(100000 / (avgPx * ctVal), d_minSz)
MaxSzOf(px) == RoundDiv(NotionalCap, px * ctVal)

\* swapsz of open_position: int(first_margin * lever / (ctVal * swappx)), with
\* one extra lot on the first open (mode 0)
OpenSize(px, mode) ==
    LET lots == (first_margin * lever) \div (ctVal * px)
    IN  IF mode = 0 THEN lots + minSz ELSE lots

\* amount = round(min(pos - minSz, self.maxsz), d_minSz)
SellAmountCapped(p, cap) == Min(p - minSz, cap)
SellAmount(p, cap) == SellAmountCapped(p, cap)

\* amount = round(pos - minSz, d_minSz) of re_position
RepositionAmount(p) == p - minSz

IsLive(st) == st \in {"live", "partially_filled"}
IsDone(st) == st \in {"filled", "canceled"}

\* the locals of the worker's frames, as they are before run() is entered
NoLocals ==
    [rpos |-> 0, swappx |-> 0, pos |-> 0, avgPx |-> 0,
     older |-> NoneResult, amount |-> 0, retry_count |-> 0,
     qret |-> "none", qexc |-> "none", eret |-> "none", sret |-> "none",
     oret |-> "none", omode |-> 0, swapsz |-> 0,
     sawNone |-> FALSE, path |-> "none", code |-> "none", state |-> "none",
     qtarget |-> "sell", cret |-> "none"]

\* the observation record: what the calls of the current tick did
NoHistory ==
    [qCalls |-> 0, healPrev |-> 0, healCur |-> 0,
     limits |-> 0, takers |-> 0, accepted |-> FALSE, cancels |-> 0,
     dups |-> 0, plDone |-> FALSE, quiet |-> FALSE, cSell |-> FALSE,
     cAdds |-> "none", last |-> NoSub, minLots |-> 0]

\* the executor part at rest, for the specifications of the worker
IdleR ==
    /\ ae = [phase |-> "off", account |-> <<>>, mode |-> 1,
             avg_price |-> 0, position_size |-> 0, add_count |-> 0,
             total_margin_used |-> 0, active_orders |-> {},
             execution_mode |-> "NORMAL", order_sequence |-> 0,
             order_mapping |-> {}, saved |-> <<>>,
             rec |-> [returned |-> FALSE, action |-> "none", confidence |-> 0,
                      total_position |-> 0, avg_cost_price |-> 0, add_count |-> 0,
                      active_orders |-> {}, source |-> "none", total_volume |-> 0,
                      consistent |-> TRUE]]
    /\ xch = [volume |-> 0, avg |-> 0, orders |-> <<>>]
    /\ evq = <<>>
    /\ obs = [sentAfter |-> 0, beside |-> FALSE, src |-> "none", restarts |-> 0,
              pending |-> 0]

\* no ladder call is looked at
NoLadder == [px |-> 0, mode |-> 1, opp |-> 0, pm |-> 1, tickSz |-> 1,
             first |-> <<>>, second |-> <<>>]

\* two workers of the process, the unit of time (0.05 s) being the sleep of
\* get_order_with_lock after an answer with data
NumWorkers == 2
Workers == 1..NumWorkers
SpacingSleep == 1       \* time.sleep(0.05)
ErrorSleep == 20        \* time.sleep(1)

\* global_lock free, no thread inside get_order_with_lock, no query made yet
NoQueries ==
    [holder |-> 0, since |-> SpacingSleep, shutdown |-> FALSE, close |-> FALSE,
     inflight |-> 0,
     pc |-> [t \in Workers |-> "returned"],
     rem |-> [t \in Workers |-> 0],
     retry_count |-> [t \in Workers |-> 0]]

\* the actions main() puts on a command queue
CommandActions == {"close_position", "close_wait", "status"}
MaxCommands == 3        \* commands main() puts in one run

\* every worker started with an empty Queue() of its own
NoCommands ==
    [q |-> [t \in Workers |-> <<>>],
     put |-> [t \in Workers |-> <<>>],
     got |-> [t \in Workers |-> <<>>],
     took |-> [t \in Workers |-> 0],
     pc |-> [t \in Workers |-> "trade"],
     stop_flag |-> [t \in Workers |-> FALSE],
     stop_event |-> [t \in Workers |-> TRUE],
     n |-> 0]

\* no call of calculate_next_action is looked at
NoCall == [called |-> FALSE]

IdleC == gl = NoQueries /\ cq = NoCommands /\ fn = NoCall /\ tm = "none"

(***************************************************************************)
(* Initial state of the worker: the thread object after __init__, started  *)
(* on a flat account (restart 0) or on a position left by an earlier run.  *)
(***************************************************************************)
NewWorker(rs) ==
    [f \in {"pc", "restart", "selfAvgPx", "maxsz", "orders"} \cup DOMAIN NoLocals |->
       CASE f = "pc" -> "run_start"
         [] f = "restart" -> rs
         [] f = "selfAvgPx" -> 0
         [] f = "maxsz" -> 0
         [] f = "orders" -> "unset"
         [] OTHER -> NoLocals[f]]

InitW ==
    /\ \E rs \in {0, 1} : w = NewWorker(rs)
    /\ stop_flag = FALSE
    /\ stop_event \in BOOLEAN
    /\ shutdown_event = FALSE
    /\ command_queue = <<>>
    /\ x \in IF w.restart = 0
            THEN {[pos |-> 0, avg |-> PxHigh, sell |-> NoOrder, adds |-> 0]}
            ELSE {[pos |-> p, avg |-> a, adds |-> n,
                   sell |-> IF lv THEN [st |-> "live", sz |-> Max(p - minSz, minSz),
                                        acc |-> 0, avg |-> a]
                            ELSE NoOrder] :
                    p \in 1..(MaxPos - 1), a \in Prices, n \in {0, adding_number},
                    lv \in BOOLEAN}
    /\ h = NoHistory
    /\ IdleR
    /\ orch = [main |-> "input", waited |-> 0, listed |-> TRUE]
    /\ lad = NoLadder
    /\ IdleC

(***************************************************************************)
(* Helpers on the worker record and the history record                     *)
(***************************************************************************)
Goto(l) == [w EXCEPT !.pc = l]

\* entry of get_order_with_lock: retry_count = 0, success = False
StartQuery(wr, target, ret, exc) ==
    [wr EXCEPT !.pc = "query", !.retry_count = 0, !.qtarget = target,
               !.qret = ret, !.qexc = exc]

\* what one place_order call leaves in the history
Sub(kind, sz) ==
    [kind |-> kind, sz |-> sz, path |-> w.path, pos |-> w.pos,
     maxsz |-> w.maxsz, sawNone |-> w.sawNone, cSell |-> h.cSell,
     cAdds |-> h.cAdds]

\* the exchange changed through something else than the self-heal's own
\* cancel and limit order
Noisy(hr) == [hr EXCEPT !.quiet = FALSE]

\* an order of the current self-heal run was accepted by the exchange
Accepted(hr) ==
    IF w.path = "heal" THEN [hr EXCEPT !.healCur = @ + 1] ELSE Noisy(hr)

\* The exchange accepts an order of sz lots that closes part of the position.
CanClose(sz) == sz >= minSz /\ sz <= x.pos

\* cancel_order(clOrdId = sellid) answered without an exception: a live order
\* is cancelled, anything else is left as it is (the error code is ignored)
CancelSell(xr) ==
    IF IsLive(xr.sell.st) THEN [xr EXCEPT !.sell.st = "canceled"] ELSE xr

\* the worker back in the frame of trade(): the callee's locals are gone
BackInTrade(wr, l) ==
    [f \in DOMAIN wr |->
       IF f = "pc" THEN l
       ELSE IF f \in DOMAIN NoLocals \ {"pos", "avgPx", "sawNone"}
       THEN NoLocals[f] ELSE wr[f]]

\* the worker back in the frame of run(): the locals of trade() are gone
BackInRun(wr, l) ==
    [f \in DOMAIN wr |->
       IF f = "pc" THEN l
       ELSE IF f \in DOMAIN NoLocals THEN NoLocals[f] ELSE wr[f]]

\* the observation of one placement is dropped, that of the self-heal kept
KeepHeal(hr) ==
    [NoHistory EXCEPT !.healPrev = hr.healPrev, !.healCur = hr.healCur,
                      !.quiet = hr.quiet]

(***************************************************************************)
(* get_order_with_lock                                                     *)
(***************************************************************************)
\* the loop condition fails: shutdown_event is set, the function returns None
QueryShutdown ==
    /\ w.pc = "query"
    /\ shutdown_event
    /\ w' = [w EXCEPT !.pc = w.qret, !.older = NoneResult, !.sawNone = TRUE,
                      !.retry_count = 0]
    /\ h' = [h EXCEPT !.qCalls = 0]
    /\ UNCHANGED <<stop_flag, stop_event, shutdown_event, command_queue, x>>
    /\ UNCHANGED <<varsR, varsM>>

\* get_order answers with data: the function returns the result
QueryData ==
    /\ w.pc = "query"
    /\ ~shutdown_event
    /\ h.qCalls < MaxQueryCalls
    /\ \/ /\ w.qtarget = "sell"
          /\ x.sell.st # "none"
          /\ w' = [w EXCEPT !.pc = w.qret, !.retry_count = 0,
                            !.older = [st |-> x.sell.st, sz |-> x.sell.sz]]
       \/ /\ w.qtarget = "open"
          /\ w' = [w EXCEPT !.pc = w.qret, !.retry_count = 0,
                            !.older = [st |-> "filled", sz |-> w.swapsz]]
    /\ h' = [h EXCEPT !.qCalls = 0]
    /\ UNCHANGED <<stop_flag, stop_event, shutdown_event, command_queue, x>>
    /\ UNCHANGED <<varsR, varsM>>

\* get_order answers without data (the order does not exist): no exception,
\* retry_count is not touched and the loop goes round again at once
QueryNoData ==
    /\ w.pc = "query"
    /\ ~shutdown_event
    /\ \/ w.qtarget = "sell" /\ x.sell.st = "none"
       \/ w.qtarget = "rejected"
    /\ h' = [h EXCEPT !.qCalls = Min(@ + 1, MaxQueryCalls)]
    /\ UNCHANGED <<w, stop_flag, stop_event, shutdown_event, command_queue, x>>
    /\ UNCHANGED <<varsR, varsM>>

\* get_order raises: back off, count, and after more than RetryLimit failures
\* set the kill switch and raise ConnectionError
QueryException ==
    /\ w.pc = "query"
    /\ ~shutdown_event
    /\ h.qCalls < MaxQueryCalls
    /\ h' = [h EXCEPT !.qCalls = @ + 1]
    /\ IF w.retry_count + 1 > RetryLimit
       THEN /\ shutdown_event' = TRUE
            /\ w' = [w EXCEPT !.retry_count = 0, !.pc = w.qexc]
       ELSE /\ shutdown_event' = shutdown_event
            /\ w' = [w EXCEPT !.retry_count = @ + 1]
    /\ UNCHANGED <<stop_flag, stop_event, command_queue, x>>
    /\ UNCHANGED <<varsR, varsM>>

(***************************************************************************)
(* _place_limit_then_fallback_market and sell_order                        *)
(***************************************************************************)
\* return of sell_order to its caller; trade() then stores self.avgPx = avgPx
SellReturn(wr) ==
    IF wr.sret = "trade_after"
    THEN [wr EXCEPT !.pc = "hourly", !.selfAvgPx = wr.avgPx]
    ELSE [wr EXCEPT !.pc = wr.sret]

\* sell_order: _calc_profit_and_maybe_open_option lists the open orders; an
\* exception there ends sell_order without any order
SellCalc ==
    /\ w.pc = "sell_calc"
    /\ \E r \in {"ok", "exc"} :
         IF r = "ok"
         THEN /\ w' = [w EXCEPT !.pc = "pl_limit1", !.code = "none"]
              /\ h' = [h EXCEPT !.limits = 0, !.takers = 0, !.accepted = FALSE,
                                !.cancels = 0, !.dups = 0, !.plDone = FALSE]
         ELSE /\ w' = SellReturn(w)
              /\ h' = h
    /\ UNCHANGED <<stop_flag, stop_event, shutdown_event, command_queue, x>>
    /\ UNCHANGED <<varsR, varsM>>

\* one limit attempt with the fixed client reference sellid
PlaceLimit(next_dup, next_other) ==
    \E r \in {"0", "51015", "other", "exc"} :
      /\ r = "0" => CanClose(w.amount) /\ ~IsLive(x.sell.st)
      /\ r = "51015" => IsLive(x.sell.st)
      /\ x' = IF r = "0"
              THEN [x EXCEPT !.sell = [st |-> "live", sz |-> w.amount, acc |-> 0,
                                       avg |-> w.avgPx]]
              ELSE x
      /\ h' = LET h1 == [h EXCEPT !.limits = @ + 1,
                                  !.dups = IF r = "51015" THEN @ + 1 ELSE @,
                                  !.accepted = (@ \/ r = "0"),
                                  !.plDone = (r = "0"),
                                  !.last = Sub("limit", w.amount)]
              IN  IF r = "0" THEN Accepted(h1) ELSE h1
      /\ w' = CASE r = "0" -> SellReturn(w)
                [] r = "51015" -> [w EXCEPT !.pc = next_dup, !.code = r]
                [] r = "other" -> [w EXCEPT !.pc = next_other, !.code = r]
                [] r = "exc" -> [w EXCEPT !.pc = "pl_market_exc"]

PlaceLimitFirst ==
    /\ w.pc = "pl_limit1"
    /\ PlaceLimit("pl_cancel", "pl_market")
    /\ UNCHANGED <<stop_flag, stop_event, shutdown_event, command_queue>>
    /\ UNCHANGED <<varsR, varsM>>

\* sCode 51015: cancel the conflicting reference, then try once more
PlaceCancelDuplicate ==
    /\ w.pc = "pl_cancel"
    /\ \E r \in {"ok", "exc"} :
         /\ x' = IF r = "ok" THEN CancelSell(x) ELSE x
         /\ w' = IF r = "ok" THEN Goto("pl_limit2") ELSE Goto("pl_market_exc")
    /\ h' = [h EXCEPT !.cancels = @ + 1]
    /\ UNCHANGED <<stop_flag, stop_event, shutdown_event, command_queue>>
    /\ UNCHANGED <<varsR, varsM>>

PlaceLimitRetry ==
    /\ w.pc = "pl_limit2"
    /\ PlaceLimit("pl_market", "pl_market")
    /\ UNCHANGED <<stop_flag, stop_event, shutdown_event, command_queue>>
    /\ UNCHANGED <<varsR, varsM>>

\* a taker order of the same size and side
PlaceMarket(next_exc) ==
    \E r \in {"ok", "rej", "exc"} :
      /\ r = "ok" => CanClose(w.amount)
      /\ x' = IF r = "ok" THEN [x EXCEPT !.pos = @ - w.amount] ELSE x
      /\ h' = LET h1 == [h EXCEPT !.takers = @ + 1,
                                  !.plDone = (r # "exc" \/ next_exc = "return"),
                                  !.last = Sub("market", w.amount)]
              IN  IF r = "ok" THEN Noisy(Accepted(h1)) ELSE h1
      /\ w' = IF r = "exc" /\ next_exc # "return"
              THEN Goto(next_exc)
              ELSE SellReturn(w)

\* the taker order inside the try block: its exception is caught by the same
\* handler as the limit order's
PlaceMarketFallback ==
    /\ w.pc = "pl_market"
    /\ PlaceMarket("pl_market_exc")
    /\ UNCHANGED <<stop_flag, stop_event, shutdown_event, command_queue>>
    /\ UNCHANGED <<varsR, varsM>>

\* the taker order of the except handler; its own exception is only logged
PlaceMarketAfterException ==
    /\ w.pc = "pl_market_exc"
    /\ PlaceMarket("return")
    /\ UNCHANGED <<stop_flag, stop_event, shutdown_event, command_queue>>
    /\ UNCHANGED <<varsR, varsM>>

(***************************************************************************)
(* ensure_sell_order (the self-heal)                                       *)
(***************************************************************************)
\* if self.stop_flag.is_set(): return; else query the sellid order
HealEntry ==
    /\ w.pc = "heal_entry"
    /\ h' = [h EXCEPT !.healPrev = IF h.quiet THEN h.healCur ELSE 0,
                      !.healCur = 0, !.quiet = TRUE, !.qCalls = 0]
    /\ w' = IF stop_flag
            THEN Goto(w.eret)
            ELSE StartQuery([w EXCEPT !.path = "heal"], "sell", "heal_q", "loop_exc")
    /\ UNCHANGED <<stop_flag, stop_event, shutdown_event, command_queue, x>>
    /\ UNCHANGED <<varsR, varsM>>

\* live = older and state in (live, partially_filled): nothing to do
HealQueried ==
    /\ w.pc = "heal_q"
    /\ w' = IF w.older.st # "None" /\ IsLive(w.older.st)
            THEN Goto(w.eret)
            ELSE Goto("heal_cancel")
    /\ UNCHANGED <<stop_flag, stop_event, shutdown_event, command_queue, x, h>>
    /\ UNCHANGED <<varsR, varsM>>

\* cancel the remnant (exceptions ignored), size the order, call sell_order
HealCancelAndSize ==
    /\ w.pc = "heal_cancel"
    /\ \E r \in {"ok", "exc"} : x' = IF r = "ok" THEN CancelSell(x) ELSE x
    /\ w' = IF w.pos <= minSz \/ SellAmount(w.pos, w.maxsz) < minSz
            THEN Goto(w.eret)
            ELSE [w EXCEPT !.pc = "sell_calc", !.sret = w.eret,
                           !.amount = SellAmount(w.pos, w.maxsz)]
    /\ UNCHANGED <<stop_flag, stop_event, shutdown_event, command_queue, h>>
    /\ UNCHANGED <<varsR, varsM>>

(***************************************************************************)
(* trade(): one poll tick                                                  *)
(***************************************************************************)
\* position = self.get_position_info(minSz), then the branch on pos == minSz
TradeReadPosition ==
    /\ w.pc = "trade_pos"
    /\ LET wr == [w EXCEPT !.pos = x.pos, !.avgPx = x.avg, !.path = "trade",
                              !.retry_count = 0]
       IN  w' = IF x.pos = minSz
                THEN [wr EXCEPT !.pc = "cycle_cancel"]
                ELSE StartQuery(wr, "sell", "trade_q", "loop_exc")
    /\ h' = [h EXCEPT !.qCalls = 0, !.minLots = 0]
    /\ UNCHANGED <<stop_flag, stop_event, shutdown_event, command_queue, x>>
    /\ UNCHANGED <<varsR, varsM>>

\* the sellid order was queried: None starts the self-heal, otherwise the
\* inline repair decides from sz and state
TradeQueried ==
    /\ w.pc = "trade_q"
    /\ w' = IF w.older.st = "None"
            THEN [w EXCEPT !.pc = "heal_entry", !.eret = "hourly"]
            ELSE LET sellpos == w.older.sz
                     state == w.older.st
                     avPos == w.pos - sellpos
                     amt == SellAmount(w.pos, w.maxsz)
                 IN  IF (avPos > minSz \/ IsDone(state))
                        /\ (sellpos < amt \/ IsDone(state) \/ w.avgPx # w.selfAvgPx)
                     THEN [w EXCEPT !.pc = "trade_cancel", !.amount = amt]
                     ELSE Goto("hourly")
    /\ UNCHANGED <<stop_flag, stop_event, shutdown_event, command_queue, x, h>>
    /\ UNCHANGED <<varsR, varsM>>

\* cancel the old sell order (exceptions only logged), then sell_order
TradeCancelOld ==
    /\ w.pc = "trade_cancel"
    /\ \E r \in {"ok", "exc"} : x' = IF r = "ok" THEN CancelSell(x) ELSE x
    /\ w' = [w EXCEPT !.pc = "sell_calc", !.sret = "trade_after"]
    /\ h' = Noisy(h)
    /\ UNCHANGED <<stop_flag, stop_event, shutdown_event, command_queue>>
    /\ UNCHANGED <<varsR, varsM>>

\* the hourly sell-order check, when an hour has passed since the last one
HourlyCheck ==
    /\ w.pc = "hourly"
    /\ \E due \in BOOLEAN :
         w' = IF due
              THEN StartQuery([BackInTrade(w, "hourly") EXCEPT !.path = "hourly"],
                              "sell", "hourly_q", "loop_exc")
              ELSE BackInRun(w, "cmd")
    /\ h' = KeepHeal(h)
    /\ UNCHANGED <<stop_flag, stop_event, shutdown_event, command_queue, x>>
    /\ UNCHANGED <<varsR, varsM>>

HourlyQueried ==
    /\ w.pc = "hourly_q"
    /\ w' = IF (w.older.st = "None" \/ IsDone(w.older.st)) /\ w.pos > minSz
            THEN [w EXCEPT !.pc = "heal_entry", !.eret = "cmd"]
            ELSE BackInRun(w, "cmd")
    /\ UNCHANGED <<stop_flag, stop_event, shutdown_event, command_queue, x, h>>
    /\ UNCHANGED <<varsR, varsM>>

(***************************************************************************)
(* cancel_openorder, close_position, process_commands                      *)
(***************************************************************************)
\* the clOrdIds that cancel_openorder sends are those of the live ADD orders:
\* self.orders holds the ids with the currency suffix ("ids") once the loop of
\* open_position or run() has rewritten them; a fresh table of
\* martingale_strategy holds '1', '2', ... ("raw")
NamesLadder == x.adds = 0 \/ w.orders = "ids"

\* cancel_multiple_orders on the ladder; nothing is sent when self.orders was
\* never set, the ids of a fresh table match no order, and an exception is
\* only logged
CancelOpenOrders(xr, r) ==
    IF w.orders = "ids" /\ r = "ok" THEN [xr EXCEPT !.adds = 0] ELSE xr

\* what a call of cancel_openorder leaves in the history
CancelledLadder(hr) ==
    [hr EXCEPT !.cAdds = IF NamesLadder THEN "named" ELSE "missed"]

\* pos == minSz: the cycle is over; cancel the ladder, then either open the
\* next cycle or stop and close
CycleEnd ==
    /\ w.pc = "cycle_cancel"
    /\ \E r \in {"ok", "exc"} : x' = CancelOpenOrders(x, r)
    /\ IF stop_event
       THEN /\ w' = [w EXCEPT !.pc = "open_ticker", !.omode = 1, !.oret = "hourly",
                              !.path = "open"]
            /\ stop_flag' = stop_flag
       ELSE /\ w' = [w EXCEPT !.pc = "close_cancel_sell", !.cret = "cmd"]
            /\ stop_flag' = TRUE
    /\ h' = CancelledLadder(Noisy(h))
    /\ UNCHANGED <<stop_event, shutdown_event, command_queue>>
    /\ UNCHANGED <<varsR, varsM>>

\* close_position, first call: cancel the sellid order; an exception restarts
\* the while loop
CloseCancelSell ==
    /\ w.pc = "close_cancel_sell"
    /\ \E r \in {"ok", "exc"} :
         /\ x' = IF r = "ok" THEN CancelSell(x) ELSE x
         /\ w' = IF r = "ok" THEN Goto("close_cancel_adds") ELSE w
         /\ h' = [Noisy(h) EXCEPT !.cSell = (r = "ok")]
    /\ UNCHANGED <<stop_flag, stop_event, shutdown_event, command_queue>>
    /\ UNCHANGED <<varsR, varsM>>

CloseCancelAdds ==
    /\ w.pc = "close_cancel_adds"
    /\ \E r \in {"ok", "exc"} : x' = CancelOpenOrders(x, r)
    /\ w' = Goto("close_flat")
    /\ h' = CancelledLadder(Noisy(h))
    /\ UNCHANGED <<stop_flag, stop_event, shutdown_event, command_queue>>
    /\ UNCHANGED <<varsR, varsM>>

\* close_positions: the taker order that flattens the position
CloseFlatten ==
    /\ w.pc = "close_flat"
    /\ \E r \in {"ok", "exc"} :
         /\ x' = IF r = "ok" THEN [x EXCEPT !.pos = 0] ELSE x
         /\ w' = IF r = "ok" THEN Goto(w.cret) ELSE Goto("close_cancel_sell")
    /\ h' = [Noisy(h) EXCEPT !.last = Sub("close", x.pos)]
    /\ UNCHANGED <<stop_flag, stop_event, shutdown_event, command_queue>>
    /\ UNCHANGED <<varsR, varsM>>

\* process_commands: at most one command per tick
ProcessCommands ==
    /\ w.pc = "cmd"
    /\ h' = NoHistory
    /\ IF command_queue = <<>>
       THEN /\ w' = BackInRun(w, "loop")
            /\ UNCHANGED <<stop_flag, stop_event, command_queue>>
       ELSE LET command == Head(command_queue)
            IN  /\ command_queue' = Tail(command_queue)
                /\ CASE command = "close_position" ->
                          /\ stop_flag' = TRUE
                          /\ stop_event' = stop_event
                          /\ w' = [BackInRun(w, "close_cancel_sell") EXCEPT
                                     !.cret = "loop", !.path = "close"]
                     [] command = "close_wait" ->
                          /\ stop_event' = FALSE
                          /\ stop_flag' = stop_flag
                          /\ w' = BackInRun(w, "loop")
                     [] command = "status" ->
                          /\ UNCHANGED <<stop_flag, stop_event>>
                          /\ w' = BackInRun(w, "loop")
    /\ UNCHANGED <<shutdown_event, x>>
    /\ UNCHANGED <<varsR, varsM>>

(***************************************************************************)
(* run(): start, the loop and its exception handler                        *)
(***************************************************************************)
\* restart == 0 opens the first position; a restored worker rebuilds
\* self.orders from the parameters
RunStart ==
    /\ w.pc = "run_start"
    /\ w' = IF w.restart = 0
            THEN [w EXCEPT !.pc = "open_ticker", !.omode = 0, !.oret = "run_getpos",
                           !.path = "open"]
            ELSE [w EXCEPT !.pc = "run_getpos", !.orders = "ids"]
    /\ UNCHANGED <<stop_flag, stop_event, shutdown_event, command_queue, x, h>>
    /\ UNCHANGED <<varsR, varsM>>

\* position = get_position_info; self.avgPx; self.maxsz
RunReadPosition ==
    /\ w.pc = "run_getpos"
    /\ w' = [w EXCEPT !.pc = "loop", !.selfAvgPx = x.avg, !.maxsz = MaxSzOf(x.avg),
                      !.retry_count = 0]
    /\ h' = [h EXCEPT !.minLots = 0]
    /\ UNCHANGED <<stop_flag, stop_event, shutdown_event, command_queue, x>>
    /\ UNCHANGED <<varsR, varsM>>

\* get_position_info answers without an entry for this instrument and side,
\* or raises: the while loop goes on without a look at the stop flag or the
\* kill switch; from the 100th miss on every round places a market order of
\* one lot
PositionNoMatch ==
    /\ w.pc \in {"trade_pos", "run_getpos"}
    /\ \E r \in {"nomatch", "exc"}, res \in {"ok", "rej"}, px \in Prices :
         IF r = "exc"
         THEN UNCHANGED <<w, x, h>>
         ELSE /\ w' = [w EXCEPT !.retry_count = Min(@ + 1, PositionRetryLimit)]
              /\ h' = IF w.retry_count + 1 >= PositionRetryLimit
                      THEN [h EXCEPT !.minLots = Min(@ + 1, MaxMinLots)]
                      ELSE h
              /\ x' = IF /\ w.retry_count + 1 >= PositionRetryLimit
                         /\ res = "ok"
                         /\ x.pos < MaxPos
                      THEN [x EXCEPT !.pos = @ + minSz, !.avg = px]
                      ELSE x
    /\ UNCHANGED <<stop_flag, stop_event, shutdown_event, command_queue>>
    /\ UNCHANGED <<varsR, varsM>>

\* while not self.stop_flag.is_set() and not shutdown_event.is_set(); the
\* frames of the last iteration are gone
LoopCheck ==
    /\ w.pc = "loop"
    /\ w' = BackInRun(w, IF stop_flag \/ shutdown_event THEN "done" ELSE "trade_pos")
    /\ h' = NoHistory
    /\ UNCHANGED <<stop_flag, stop_event, shutdown_event, command_queue, x>>
    /\ UNCHANGED <<varsR, varsM>>

\* except Exception in run(): log, sleep 5 s, next iteration
LoopException ==
    /\ w.pc = "loop_exc"
    /\ w' = Goto("loop")
    /\ UNCHANGED <<stop_flag, stop_event, shutdown_event, command_queue, x, h>>
    /\ UNCHANGED <<varsR, varsM>>

(***************************************************************************)
(* open_position and its repair path re_position                           *)
(***************************************************************************)
\* get_ticker and the size of the open order
OpenTicker ==
    /\ w.pc = "open_ticker"
    /\ \E r \in {"ok", "exc"}, px \in Prices :
         IF r = "exc"
         THEN /\ w' = Goto("open_fail")
              /\ stop_flag' = stop_flag
         ELSE IF OpenSize(px, w.omode) < minSz
         THEN /\ w' = [w EXCEPT !.pc = w.oret, !.swapsz = OpenSize(px, w.omode)]
              /\ stop_flag' = TRUE
         ELSE /\ w' = [w EXCEPT !.pc = "open_market", !.swappx = px,
                                !.swapsz = OpenSize(px, w.omode)]
              /\ stop_flag' = stop_flag
    /\ UNCHANGED <<stop_event, shutdown_event, command_queue, x, h>>
    /\ UNCHANGED <<varsR, varsM>>

\* the market order that opens the position, then the query of its fill
OpenMarket ==
    /\ w.pc = "open_market"
    /\ \E r \in {"ok", "rej", "exc"} :
         /\ r = "ok" => x.pos + w.swapsz <= MaxPos
         /\ x' = IF r = "ok"
                 THEN [x EXCEPT !.pos = @ + w.swapsz, !.avg = w.swappx]
                 ELSE x
         /\ w' = CASE r = "ok" -> StartQuery(w, "open", "open_q", "open_fail")
                   [] r = "rej" -> StartQuery(w, "rejected", "open_q", "open_fail")
                   [] r = "exc" -> Goto("open_fail")
    /\ h' = [Noisy(h) EXCEPT !.qCalls = 0, !.last = Sub("open", w.swapsz)]
    /\ UNCHANGED <<stop_flag, stop_event, shutdown_event, command_queue>>
    /\ UNCHANGED <<varsR, varsM>>

\* px = olderresult['data'][0]['avgPx'] (a None result raises), then
\* self.orders = martingale_strategy(...)
OpenQueried ==
    /\ w.pc = "open_q"
    /\ w' = IF w.older.st = "None"
            THEN Goto("open_fail")
            ELSE [w EXCEPT !.pc = "open_sell", !.orders = "raw"]
    /\ UNCHANGED <<stop_flag, stop_event, shutdown_event, command_queue, x, h>>
    /\ UNCHANGED <<varsR, varsM>>

\* size of the first PROFIT order of a cycle
OpenSellSize(swapsz, mode) ==
    IF mode = 0 THEN Max(swapsz - minSz, minSz) ELSE swapsz

\* the limit PROFIT order of the new cycle; its result code is not looked at
OpenSell ==
    /\ w.pc = "open_sell"
    /\ LET sz == OpenSellSize(w.swapsz, w.omode)
       IN  /\ \E r \in {"0", "rej", "exc"} :
                /\ r = "0" => CanClose(sz) /\ ~IsLive(x.sell.st)
                /\ x' = IF r = "0"
                        THEN [x EXCEPT !.sell = [st |-> "live", sz |-> sz, acc |-> 0,
                                                avg |-> x.avg]]
                        ELSE x
                /\ w' = IF r = "exc" THEN Goto("open_fail") ELSE Goto("open_adds")
           /\ h' = [Noisy(h) EXCEPT !.last = Sub("limit", sz)]
    /\ UNCHANGED <<stop_flag, stop_event, shutdown_event, command_queue>>
    /\ UNCHANGED <<varsR, varsM>>

\* the ladder of ADD orders, placed in one batch
OpenLadder ==
    /\ w.pc = "open_adds"
    /\ \E r \in {"ok", "rej", "exc"} :
         /\ x' = IF r = "ok" THEN [x EXCEPT !.adds = adding_number] ELSE x
         /\ w' = [w EXCEPT !.pc = IF r = "exc" THEN "open_fail" ELSE w.oret,
                           !.orders = "ids"]
    /\ h' = Noisy(h)
    /\ UNCHANGED <<stop_flag, stop_event, shutdown_event, command_queue>>
    /\ UNCHANGED <<varsR, varsM>>

\* except in open_position: cancel_openorder(), then re_position queries the
\* sellid order
OpenFailed ==
    /\ w.pc = "open_fail"
    /\ \E r \in {"ok", "exc"} : x' = CancelOpenOrders(x, r)
    /\ w' = StartQuery([w EXCEPT !.path = "repos"], "sell", "repos_q", w.oret)
    /\ h' = [CancelledLadder(Noisy(h)) EXCEPT !.qCalls = 0]
    /\ UNCHANGED <<stop_flag, stop_event, shutdown_event, command_queue>>
    /\ UNCHANGED <<varsR, varsM>>

\* state = olderresult['data'][0]['state']; a None result raises and
\* re_position ends
ReposQueried ==
    /\ w.pc = "repos_q"
    /\ w' = IF w.older.st = "None"
            THEN Goto(w.oret)
            ELSE [w EXCEPT !.pc = "repos_pos", !.state = w.older.st]
    /\ UNCHANGED <<stop_flag, stop_event, shutdown_event, command_queue, x, h>>
    /\ UNCHANGED <<varsR, varsM>>

\* re_position reads the position and decides: hit = uplRatio >= profit_target
ReposDecide ==
    /\ w.pc = "repos_pos"
    /\ \E hit \in BOOLEAN :
         LET p == x.pos
             amt == RepositionAmount(p)
             wr == [w EXCEPT !.rpos = p, !.amount = amt]
         IN  w' = IF IsDone(w.state) /\ p > minSz
                  THEN [wr EXCEPT !.pc = "repos_place",
                                  !.code = IF hit THEN "market" ELSE "limit"]
                  ELSE IF p > minSz /\ amt >= minSz
                  THEN [wr EXCEPT !.pc = "repos_cancel"]
                  ELSE [wr EXCEPT !.pc = w.oret]
    /\ UNCHANGED <<stop_flag, stop_event, shutdown_event, command_queue, x, h>>
    /\ UNCHANGED <<varsR, varsM>>

\* the sell order is still open: cancel it (exceptions only logged)
ReposCancel ==
    /\ w.pc = "repos_cancel"
    /\ \E r \in {"ok", "exc"} : x' = IF r = "ok" THEN CancelSell(x) ELSE x
    /\ w' = Goto("repos_pos2")
    /\ h' = Noisy(h)
    /\ UNCHANGED <<stop_flag, stop_event, shutdown_event, command_queue>>
    /\ UNCHANGED <<varsR, varsM>>

\* ... read the position again and sell pos - minSz at market
ReposReread ==
    /\ w.pc = "repos_pos2"
    /\ LET p == x.pos
           amt == RepositionAmount(p)
       IN  w' = IF p > minSz /\ amt >= minSz
                THEN [w EXCEPT !.pc = "repos_place", !.rpos = p, !.amount = amt,
                               !.code = "market"]
                ELSE [w EXCEPT !.pc = w.oret, !.rpos = p, !.amount = amt]
    /\ UNCHANGED <<stop_flag, stop_event, shutdown_event, command_queue, x, h>>
    /\ UNCHANGED <<varsR, varsM>>

\* the order of re_position: a market order, or a limit order with the sellid
\* reference; exceptions only logged
ReposPlace ==
    /\ w.pc = "repos_place"
    /\ \E r \in {"ok", "rej", "exc"} :
         /\ r = "ok" => CanClose(w.amount)
         /\ r = "ok" /\ w.code = "limit" => ~IsLive(x.sell.st)
         /\ x' = IF r # "ok" THEN x
                 ELSE IF w.code = "limit"
                 THEN [x EXCEPT !.sell = [st |-> "live", sz |-> w.amount, acc |-> 0,
                                          avg |-> x.avg]]
                 ELSE [x EXCEPT !.pos = @ - w.amount]
    /\ w' = Goto(w.oret)
    /\ h' = [Noisy(h) EXCEPT !.last = [Sub(w.code, w.amount) EXCEPT !.pos = w.rpos]]
    /\ UNCHANGED <<stop_flag, stop_event, shutdown_event, command_queue>>
    /\ UNCHANGED <<varsR, varsM>>

(***************************************************************************)
(* The environment of the worker: the exchange, the other threads          *)
(***************************************************************************)
\* The exchange moves while the worker waits for it: in the sleep of the
\* loop, before the first call of a status query, before a read of the
\* position.  (Between two calls of one query nothing else is read, so an
\* event there is the same as one before the first call.)
Alive ==
    \/ w.pc \in {"loop", "repos_pos", "repos_pos2", "run_getpos"}
    \/ w.pc = "query" /\ h.qCalls = 0
\* the other threads act while the worker sleeps or polls
Polling == w.pc = "loop" \/ (w.pc = "query" /\ h.qCalls = 0)
\* stop_flag is read at the head of the loop and on entry of the self-heal
StopRead == w.pc \in {"loop", "heal_entry"}

\* the sellid order fills completely
SellFill ==
    /\ Alive
    /\ IsLive(x.sell.st)
    /\ x.sell.sz - x.sell.acc <= x.pos
    /\ x' = [x EXCEPT !.sell.st = "filled", !.sell.acc = x.sell.sz,
                      !.pos = @ - (x.sell.sz - x.sell.acc)]
    /\ h' = Noisy(h)
    /\ UNCHANGED <<w, stop_flag, stop_event, shutdown_event, command_queue>>
    /\ UNCHANGED <<varsR, varsM>>

\* one lot of the sellid order fills
SellPartialFill ==
    /\ Alive
    /\ IsLive(x.sell.st)
    /\ x.sell.acc = 0
    /\ x.sell.sz >= 2
    /\ x.pos >= 1
    /\ x' = [x EXCEPT !.sell.st = "partially_filled", !.sell.acc = @ + 1,
                      !.pos = @ - 1]
    /\ h' = Noisy(h)
    /\ UNCHANGED <<w, stop_flag, stop_event, shutdown_event, command_queue>>
    /\ UNCHANGED <<varsR, varsM>>

\* an ADD order of the ladder fills: one more lot at a lower average
AddFill ==
    /\ Alive
    /\ x.adds > 0
    /\ x.pos < MaxPos
    /\ x' = [x EXCEPT !.adds = @ - 1, !.pos = @ + 1, !.avg = PxLow]
    /\ h' = Noisy(h)
    /\ UNCHANGED <<w, stop_flag, stop_event, shutdown_event, command_queue>>
    /\ UNCHANGED <<varsR, varsM>>

\* the sellid order is cancelled on the exchange side
ExternalCancel ==
    /\ Alive
    /\ IsLive(x.sell.st)
    /\ x' = [x EXCEPT !.sell.st = "canceled"]
    /\ h' = Noisy(h)
    /\ UNCHANGED <<w, stop_flag, stop_event, shutdown_event, command_queue>>
    /\ UNCHANGED <<varsR, varsM>>

\* another thread sets the kill switch: a worker whose status query ran out
\* of retries, or main() on the exit command
TripKillSwitch ==
    /\ Polling
    /\ ~shutdown_event
    /\ shutdown_event' = TRUE
    /\ UNCHANGED <<w, stop_flag, stop_event, command_queue, x, h>>
    /\ UNCHANGED <<varsR, varsM>>

\* main() on exit: strategy.stop() after shutdown_event.set()
MainStopsWorker ==
    /\ StopRead
    /\ shutdown_event
    /\ ~stop_flag
    /\ stop_flag' = TRUE
    /\ UNCHANGED <<w, stop_event, shutdown_event, command_queue, x, h>>
    /\ UNCHANGED <<varsR, varsM>>

\* main() puts a command on the worker's queue; the queue is read by
\* process_commands only
PutCommand ==
    /\ w.pc = "cmd"
    /\ Len(command_queue) < MaxQueue
    /\ \E c \in {"close_position", "close_wait", "status"} :
         command_queue' = Append(command_queue, c)
    /\ UNCHANGED <<w, stop_flag, stop_event, shutdown_event, x, h>>
    /\ UNCHANGED <<varsR, varsM>>

(***************************************************************************)
(* The prices of the ladder: martingale_strategy and the loop of           *)
(* open_position that places the ADD orders.  Prices are integers; the     *)
(* ratios are in thousandths.                                              *)
(***************************************************************************)
\* older_price of level i: before_price * (1 - opp_ratio * price_multiple**(i-1)),
\* opp_ratio negated for mode 2
older_price(c, i) ==
    LET RECURSIVE Pm(_)
        Pm(k) == IF k = 0 THEN 1 ELSE c.pm * Pm(k - 1)
        RECURSIVE At(_)
        At(k) == IF k = 0 THEN c.px
                 ELSE IF c.mode = 1
                 THEN (At(k - 1) * (1000 - c.opp * Pm(k - 1))) \div 1000
                 ELSE (At(k - 1) * (1000 + c.opp * Pm(k - 1))) \div 1000
    IN  At(i)

\* the draws random.randint(int(i/2), i) of the levels 1..adding_number
RandomDraws ==
    {r \in [1..adding_number -> 0..adding_number] :
        \A i \in 1..adding_number : i \div 2 <= r[i] /\ r[i] <= i}

\* px of the ADD orders that open_position places
LadderPx(c, r) ==
    [i \in 1..adding_number |->
       IF c.mode = 1 THEN older_price(c, i) - r[i] * c.tickSz
       ELSE older_price(c, i) + r[i] * c.tickSz]

\* the inputs of the two calls: anchor price, mode, opp_ratio, price_multiple
\* and the tick size of the instrument
LadderInputs ==
    [px : {1000000, 2000000}, mode : {1, 2}, opp : {10, 20}, pm : {1, 2},
     tickSz : {100}, first : {<<>>}, second : {<<>>}]

\* open_position places the ladder: the first call and the second call
PlaceLadder ==
    /\ lad.px > 0
    /\ \E r \in RandomDraws :
         \/ lad.first = <<>> /\ lad' = [lad EXCEPT !.first = LadderPx(lad, r)]
         \/ lad.second = <<>> /\ lad' = [lad EXCEPT !.second = LadderPx(lad, r)]
    /\ UNCHANGED <<varsW, varsR, orch, varsC>>

(***************************************************************************)
(* main(): the commands of the operator and the joins that follow them     *)
(***************************************************************************)
\* command 'stop': choice 1 queues close_position and joins the worker for
\* 10 s, choice 2 queues close_wait and goes back to the prompt
MainStop ==
    /\ orch.main = "input"
    /\ orch.listed
    /\ Len(command_queue) < MaxQueue
    /\ \E choice \in {1, 2} :
         /\ command_queue' = Append(command_queue,
                                 IF choice = 1 THEN "close_position" ELSE "close_wait")
         /\ orch' = IF choice = 1
                    THEN [orch EXCEPT !.main = "stop_join", !.waited = 0]
                    ELSE orch
    /\ UNCHANGED <<w, stop_flag, stop_event, shutdown_event, x, h>>
    /\ UNCHANGED <<varsR, lad, varsC>>

\* the clock of a join that has a timeout
MainTick ==
    /\ \/ orch.main = "stop_join" /\ orch.waited < StopJoinTimeout
       \/ orch.main = "retry_join" /\ orch.waited < RetryJoinTimeout
    /\ orch' = [orch EXCEPT !.waited = @ + TickSeconds]
    /\ UNCHANGED <<varsW, varsR, lad, varsC>>

\* join(timeout=10) returns: a worker that is still alive gets the command a
\* second time and 5 s more, a dead one is taken out of strategies
MainStopJoined ==
    /\ orch.main = "stop_join"
    /\ w.pc = "done" \/ orch.waited >= StopJoinTimeout
    /\ IF w.pc # "done"
       THEN /\ command_queue' = IF Len(command_queue) < MaxQueue
                                THEN Append(command_queue, "close_position")
                                ELSE command_queue
            /\ orch' = [orch EXCEPT !.main = "retry_join", !.waited = 0]
       ELSE /\ command_queue' = command_queue
            /\ orch' = [main |-> "input", waited |-> 0, listed |-> FALSE]
    /\ UNCHANGED <<w, stop_flag, stop_event, shutdown_event, x, h>>
    /\ UNCHANGED <<varsR, lad, varsC>>

\* join(timeout=5) returns: a warning if the worker is still alive
MainRetryJoined ==
    /\ orch.main = "retry_join"
    /\ w.pc = "done" \/ orch.waited >= RetryJoinTimeout
    /\ orch' = [main |-> "input", waited |-> 0, listed |-> (w.pc # "done")]
    /\ UNCHANGED <<varsW, varsR, lad, varsC>>

\* command 'exit': shutdown_event.set(), stop() of every worker in
\* strategies, then join() of every worker
MainExit ==
    /\ orch.main = "input"
    /\ shutdown_event' = TRUE
    /\ stop_flag' = (stop_flag \/ orch.listed)
    /\ orch' = [orch EXCEPT !.main = IF orch.listed THEN "exit_join" ELSE "exited"]
    /\ UNCHANGED <<w, stop_event, command_queue, x, h>>
    /\ UNCHANGED <<varsR, lad, varsC>>

\* join() returns: the worker thread has ended
MainExitJoined ==
    /\ orch.main = "exit_join"
    /\ w.pc = "done"
    /\ orch' = [orch EXCEPT !.main = "exited"]
    /\ UNCHANGED <<varsW, varsR, lad, varsC>>

\* the steps main() takes by itself while it waits
MainWait == MainTick \/ MainStopJoined \/ MainRetryJoined \/ MainExitJoined

(***************************************************************************)
(* Specification of the worker                                             *)
(***************************************************************************)
NextWorker ==
    \/ RunStart \/ RunReadPosition \/ LoopCheck \/ LoopException
    \/ TradeReadPosition \/ TradeQueried \/ TradeCancelOld
    \/ HourlyCheck \/ HourlyQueried
    \/ QueryShutdown \/ QueryData \/ QueryNoData \/ QueryException
    \/ HealEntry \/ HealQueried \/ HealCancelAndSize
    \/ SellCalc \/ PlaceLimitFirst \/ PlaceCancelDuplicate \/ PlaceLimitRetry
    \/ PlaceMarketFallback \/ PlaceMarketAfterException
    \/ CycleEnd \/ CloseCancelSell \/ CloseCancelAdds \/ CloseFlatten
    \/ ProcessCommands
    \/ OpenTicker \/ OpenMarket \/ OpenQueried \/ OpenSell \/ OpenLadder
    \/ OpenFailed \/ ReposQueried \/ ReposDecide \/ ReposCancel \/ ReposReread
    \/ ReposPlace
    \/ SellFill \/ SellPartialFill \/ AddFill \/ ExternalCancel

\* the worker with the other threads as its environment
NextW == NextWorker \/ TripKillSwitch \/ MainStopsWorker \/ PutCommand

SpecW == InitW /\ [][NextW]_vars

\* the worker started on a flat account, with the position read as the loop
\* it is; the thread keeps running, the exchange answers as it likes
InitStop == InitW /\ w.restart = 0 /\ ~stop_event

\* the worker under main(): started by the command 'start', then stopped
\* by 'stop' or 'exit'
SpecMain ==
    /\ InitStop
    /\ [][NextWorker \/ MainStop \/ MainExit \/ MainWait]_vars
    /\ WF_vars(NextWorker) /\ WF_vars(MainWait)

\* the worker started by the command 'start' (restart 0) or by
\* restore_strategies (restart 1), on an account with or without a position
InitStart ==
    /\ \E rs \in {0, 1} : w = NewWorker(rs)
    /\ stop_flag = FALSE
    /\ stop_event = FALSE
    /\ shutdown_event = FALSE
    /\ command_queue = <<>>
    /\ x \in {[pos |-> p, avg |-> PxHigh, sell |-> NoOrder, adds |-> 0] : p \in 0..2}
    /\ h = NoHistory
    /\ IdleR
    /\ orch = [main |-> "input", waited |-> 0, listed |-> TRUE]
    /\ lad = NoLadder
    /\ IdleC

SpecStart == InitStart /\ [][NextW]_vars

SpecStop ==
    InitStop /\ [][NextW \/ PositionNoMatch]_vars /\ WF_vars(NextW \/ PositionNoMatch)

(***************************************************************************)
(* Properties of the worker                                                *)
(***************************************************************************)
\* C1: two consecutive runs of the self-heal, with no fill, no command and
\* no position change between them, get at most one order onto the exchange
\* (an accepted order is a submitted one, so this is the least the claim
\* says).
C1_SelfHealIdempotent == h.healPrev + h.healCur <= 1

\* C3: a worker whose status query has returned None because the kill switch
\* is set submits no limit and no taker order afterwards.
C3_NoOrderAfterKillSwitch ==
    h.last.kind \in {"limit", "market"} => ~h.last.sawNone

\* C4: one PROFIT submission sends at most one taker order.
C4_AtMostOneTaker == h.takers <= 1

\* C5: once self.maxsz is known, the protective limit order that re_position
\* places for a filled or canceled PROFIT order has size
\* min(pos - minSz, maxsz).
C5_RepairSizeCapped ==
    h.last.path = "repos" /\ h.last.kind = "limit" /\ h.last.maxsz > 0
        => h.last.sz = Min(h.last.pos - minSz, h.last.maxsz)

\* C6: one status query makes at most RetryLimit + 1 calls of get_order.
C6_QueryBounded == h.qCalls <= RetryLimit + 1

(***************************************************************************)
(* Part R.  src/project/account_executor.py: order references              *)
(***************************************************************************)
MaxSeq == 3
MaxEvents == 3
MaxVolume == 5
size_tick == 1
profit_target_pct == 1
opp_ratio_permille == 25
first_margin_R == 20
first_margin_add == 10
lever_R == 10
amount_multiplier == 2
max_total_margin == 1000
adding_number_R == 2
TickPrices == {95, 102}
BootAvg == 100
MaxRestarts == 1
\* fills of orders that are not the strategy's own
MaxForeign == 1

\* strings are sequences of characters, so that substring tests are computed
S_MARTIN == <<"M", "A", "R", "T", "I", "N">>
S_OPEN == <<"O", "P", "E", "N">>
S_PROFIT == <<"P", "R", "O", "F", "I", "T">>
S_ADD_ == <<"A", "D", "D", "_">>
S_EMERGENCY_EXIT == <<"E", "M", "E", "R", "G", "E", "N", "C", "Y", "_", "E", "X", "I", "T">>
S_SYMBOL == <<"B", "T", "C", "-", "U", ".", "O", "K", "X">>
Underscore == <<"_">>
Digits == <<"0", "1", "2", "3", "4", "5", "6", "7", "8", "9">>
LowerCase == <<"a", "b", "c", "d", "e", "f", "g", "h", "i", "j", "k", "l", "m",
               "n", "o", "p", "q", "r", "s", "t", "u", "v", "w", "x", "y", "z">>
UpperCase == <<"A", "B", "C", "D", "E", "F", "G", "H", "I", "J", "K", "L", "M",
               "N", "O", "P", "Q", "R", "S", "T", "U", "V", "W", "X", "Y", "Z">>
\* account ids: an ordinary one, and one that happens to contain "M1"
AccountIds == {<<"A", "0", "1">>, <<"A", "M", "1">>}

\* str.upper()
Upper(str) ==
    [i \in 1..Len(str) |->
       IF \E k \in 1..26 : LowerCase[k] = str[i]
       THEN UpperCase[CHOOSE k \in 1..26 : LowerCase[k] = str[i]]
       ELSE str[i]]

\* str.find(sub): the first index (from 0) at which sub occurs, or -1
Find(sub, str) ==
    LET hits == {i \in 1..(Len(str) - Len(sub) + 1) :
                    SubSeq(str, i, i + Len(sub) - 1) = sub}
    IN  IF hits = {} THEN -1
        ELSE (CHOOSE i \in hits : \A j \in hits : i <= j) - 1

\* sub in str
Contains(sub, str) == Find(sub, str) >= 0

\* str.startswith(sub)
StartsWith(sub, str) == Len(sub) <= Len(str) /\ SubSeq(str, 1, Len(sub)) = sub

\* symbol.replace('-', '').replace('.', '').replace('_', '')
CleanSymbol(sym) == SelectSeq(sym, LAMBDA c : c \notin {"-", ".", "_"})

\* f"{n:04d}"
Pad4(n) ==
    <<Digits[((n \div 1000) % 10) + 1], Digits[((n \div 100) % 10) + 1],
      Digits[((n \div 10) % 10) + 1], Digits[(n % 10) + 1]>>

\* f"M{mode}"
ModeSuffix(mode) == <<"M", Digits[mode + 1]>>

\* action names: "OPEN", "PROFIT", f"ADD_{add_count + 1}"
ActionName(act, n) ==
    CASE act = "OPEN" -> S_OPEN
      [] act = "PROFIT" -> S_PROFIT
      [] act = "ADD" -> S_ADD_ \o <<Digits[n + 1]>>
      [] act = "EXIT" -> S_EMERGENCY_EXIT

\* OrderManager.generate_order_reference, with the sequence number already
\* advanced
generate_order_reference(account, sym, actname, seq) ==
    S_MARTIN \o Underscore \o account \o Underscore \o CleanSymbol(sym)
        \o Underscore \o actname \o Underscore \o Pad4(seq)

\* OrderManager.classify_order = MARTIN
IsMartinCategory(ref) == StartsWith(S_MARTIN \o Underscore, ref)

\* OrderManager.is_my_order
is_my_order(id, ref, mapping, account) ==
    id \in mapping \/ Find(Underscore \o account \o Underscore, ref) > 0

\* the reference filter of _analyze_martin_orders and _get_active_martin_orders
RecoveryFilter(ref, mode) ==
    Contains(ModeSuffix(mode), ref) /\ Contains(S_MARTIN, Upper(ref))

\* OrderData.is_active()
IsActiveStatus(st) == st \in {"SUBMITTING", "NOTTRADED", "PARTTRADED"}

(***************************************************************************)
(* MartinManager: the next order                                           *)
(***************************************************************************)
NoReq == [act |-> "none", direction |-> "none", volume |-> 0, n |-> 0, price |-> 0]

\* MartinManager._round_to_size_tick
round_to_size_tick(num, den) == Max(size_tick, RoundDiv(num, den * size_tick) * size_tick)

OpenDirection(mode) == IF mode = 1 THEN "LONG" ELSE "SHORT"
CloseDirection(mode) == IF mode = 1 THEN "SHORT" ELSE "LONG"

\* an opening order computed without a look at the execution mode
C33_OpenRegardless(mgr, price) ==
    [act |-> "OPEN", direction |-> OpenDirection(mgr.mode), n |-> 0,
     price |-> price,
     volume |-> round_to_size_tick(first_margin_R * lever_R, price)]

\* MartinManager._calculate_first_position_order (trend_signal is None)
calculate_first_position_order(mgr, price) ==
    IF mgr.execution_mode = "POSITION_ONLY" THEN NoReq
    ELSE [act |-> "OPEN", direction |-> OpenDirection(mgr.mode), n |-> 0,
          price |-> price,
          volume |-> round_to_size_tick(first_margin_R * lever_R, price)]

\* profit_price = avg_price * (1 +- profit_target), to the price tick
ProfitPrice(mgr) ==
    IF mgr.mode = 1 THEN RoundDiv(mgr.avg_price * (100 + profit_target_pct), 100)
    ELSE RoundDiv(mgr.avg_price * (100 - profit_target_pct), 100)

\* MartinManager._calculate_profit_order
calculate_profit_order(mgr, price) ==
    IF mgr.avg_price <= 0 \/ mgr.position_size <= 0 THEN NoReq
    ELSE IF Cardinality(mgr.active_orders) > 0 THEN NoReq
    ELSE IF mgr.mode = 1 /\ 100 * price < mgr.avg_price * (100 + profit_target_pct)
    THEN NoReq
    ELSE IF mgr.mode = 2 /\ 100 * price > mgr.avg_price * (100 - profit_target_pct)
    THEN NoReq
    ELSE LET vol == round_to_size_tick(9 * mgr.position_size, 10)
         IN  IF vol < size_tick THEN NoReq
             ELSE [act |-> "PROFIT", direction |-> CloseDirection(mgr.mode),
                   volume |-> vol, n |-> 0, price |-> ProfitPrice(mgr)]

\* amount_multiplier ** add_count
RECURSIVE Power(_, _)
Power(b, k) == IF k = 0 THEN 1 ELSE b * Power(b, k - 1)

\* MartinManager._calculate_add_position_order (trend_signal is None);
\* deviation in thousandths of the average price
calculate_add_position_order(mgr, price) ==
    LET add_margin == first_margin_add * Power(amount_multiplier, mgr.add_count)
        deviation == IF mgr.mode = 1 THEN mgr.avg_price - price
                     ELSE price - mgr.avg_price
    IN  IF mgr.add_count >= adding_number_R
           \/ mgr.total_margin_used >= max_total_margin
        THEN NoReq
        ELSE IF mgr.avg_price <= 0 THEN NoReq
        ELSE IF 1000 * deviation < opp_ratio_permille * mgr.avg_price THEN NoReq
        ELSE IF mgr.total_margin_used + add_margin > max_total_margin THEN NoReq
        ELSE [act |-> "ADD", direction |-> OpenDirection(mgr.mode),
              n |-> mgr.add_count + 1, price |-> price,
              volume |-> round_to_size_tick(add_margin * lever_R, price)]

\* MartinManager._calculate_position_management_order
calculate_position_management_order(mgr, price) ==
    IF calculate_profit_order(mgr, price) # NoReq
    THEN calculate_profit_order(mgr, price)
    ELSE IF mgr.execution_mode # "POSITION_ONLY"
    THEN calculate_add_position_order(mgr, price)
    ELSE NoReq

\* MartinManager._create_emergency_exit_order
create_emergency_exit_order(mgr) ==
    IF mgr.position_size <= size_tick THEN NoReq
    ELSE [act |-> "EXIT", direction |-> CloseDirection(mgr.mode),
          volume |-> mgr.position_size, n |-> 0, price |-> 0]

Abs(v) == IF v < 0 THEN -v ELSE v

\* MartinManager.calculate_next_action
calculate_next_action(mgr, price) ==
    IF mgr.execution_mode = "SUSPENDED" THEN NoReq
    ELSE IF mgr.execution_mode = "EMERGENCY_EXIT" THEN create_emergency_exit_order(mgr)
    ELSE IF Abs(mgr.position_size) <= size_tick
    THEN calculate_first_position_order(mgr, price)
    ELSE calculate_position_management_order(mgr, price)

\* MartinManager._reset_martin_state
reset_martin_state(mgr) ==
    [mgr EXCEPT !.avg_price = 0, !.position_size = 0, !.add_count = 0,
                !.total_margin_used = 0, !.active_orders = {},
                !.execution_mode = "NORMAL"]

\* MartinManager.on_order_update
on_order_update(mgr, ev) ==
    LET ref == xch.orders[ev.id].ref
    IN  IF ~is_my_order(ev.id, ref, mgr.order_mapping, mgr.account) THEN mgr
        ELSE IF ~IsMartinCategory(ref) THEN mgr
        ELSE LET m1 == [mgr EXCEPT !.active_orders =
                            IF IsActiveStatus(ev.status) THEN @ \cup {ev.id}
                            ELSE @ \ {ev.id}]
             IN  IF ev.status = "ALLTRADED" /\ ev.direction = "LONG"
                 THEN [m1 EXCEPT !.add_count = @ + 1]
                 ELSE m1

\* MartinManager.on_trade_update
on_trade_update(mgr, ev) ==
    IF ev.direction = "LONG"
    THEN IF mgr.position_size > 0
         THEN [mgr EXCEPT !.position_size = @ + ev.volume,
                          !.avg_price = RoundDiv(mgr.avg_price * mgr.position_size
                                                   + ev.price * ev.volume,
                                                 mgr.position_size + ev.volume)]
         ELSE [mgr EXCEPT !.position_size = ev.volume, !.avg_price = ev.price]
    ELSE IF mgr.position_size - ev.volume <= size_tick
         THEN reset_martin_state(mgr)
         ELSE [mgr EXCEPT !.position_size = @ - ev.volume]

(***************************************************************************)
(* PersistenceManager: martin_states.json                                  *)
(***************************************************************************)
\* json.dump of a number: its decimal text
json_dumps(n) ==
    LET RECURSIVE NatText(_)
        NatText(k) == IF k < 10 THEN <<Digits[k + 1]>>
                      ELSE NatText(k \div 10) \o <<Digits[(k % 10) + 1]>>
    IN  IF n < 0 THEN <<"-">> \o NatText(-n) ELSE NatText(n)

\* a reader of number texts that drops the sign
C24_LoadsUnsigned(str) ==
    LET RECURSIVE NatValue(_)
        NatValue(t) == IF t = <<>> THEN 0
                       ELSE 10 * NatValue(SubSeq(t, 1, Len(t) - 1))
                              + (CHOOSE k \in 0..9 : Digits[k + 1] = t[Len(t)])
    IN  IF str # <<>> /\ Head(str) = "-" THEN NatValue(Tail(str)) ELSE NatValue(str)

\* json.load of a number text
json_loads(str) ==
    LET RECURSIVE NatValue(_)
        NatValue(t) == IF t = <<>> THEN 0
                       ELSE 10 * NatValue(SubSeq(t, 1, Len(t) - 1))
                              + (CHOOSE k \in 0..9 : Digits[k + 1] = t[Len(t)])
    IN  IF str # <<>> /\ Head(str) = "-" THEN -NatValue(Tail(str)) ELSE NatValue(str)

\* f"{symbol}_{mode_suffix}"
StrategyKey(mode) == S_SYMBOL \o Underscore \o ModeSuffix(mode)

\* PersistenceManager.save_martin_states: the text of the file, one entry
\* per strategy key
save_martin_states(mgr) ==
    <<[key |-> StrategyKey(mgr.mode),
       avg_price |-> json_dumps(mgr.avg_price),
       position_size |-> json_dumps(mgr.position_size),
       add_count |-> json_dumps(mgr.add_count),
       execution_mode |-> mgr.execution_mode]>>

\* PersistenceManager.load_martin_states: the dictionary read back from the
\* file, empty when there is no file
load_martin_states(file) ==
    [i \in 1..Len(file) |->
       [key |-> file[i].key,
        avg_price |-> json_loads(file[i].avg_price),
        position_size |-> json_loads(file[i].position_size),
        add_count |-> json_loads(file[i].add_count),
        execution_mode |-> file[i].execution_mode]]

(***************************************************************************)
(* MartinStateRecovery: the recovery pass                                  *)
(***************************************************************************)
NonePosition == [volume |-> 0, avg_price |-> 0, source |-> "none"]

\* _get_exchange_position: src is where the position was found; "none" is
\* also the result of an exception
get_exchange_position(src) ==
    IF src = "none" \/ xch.volume = 0 THEN NonePosition
    ELSE [volume |-> xch.volume, source |-> src,
          avg_price |-> IF xch.avg > 0 THEN xch.avg ELSE 0]

OrderIds == 1..Len(xch.orders)

\* the filled buy orders that _analyze_martin_orders counts
CountedBuys(mode) ==
    {i \in OrderIds :
       /\ RecoveryFilter(xch.orders[i].ref, mode)
       /\ xch.orders[i].direction = "LONG"
       /\ xch.orders[i].status = "ALLTRADED"
       /\ (Contains(S_ADD_, xch.orders[i].ref) \/ Contains(S_OPEN, xch.orders[i].ref))}

RECURSIVE SumTraded(_)
SumTraded(ids) ==
    IF ids = {} THEN 0
    ELSE LET i == CHOOSE j \in ids : TRUE
         IN  xch.orders[i].traded + SumTraded(ids \ {i})

\* _analyze_martin_orders
analyze_martin_orders(mode) ==
    [add_count |-> Max(0, Cardinality(CountedBuys(mode)) - 1),
     total_volume |-> SumTraded(CountedBuys(mode))]

\* _get_active_martin_orders
get_active_martin_orders(mode) ==
    {i \in OrderIds : /\ IsActiveStatus(xch.orders[i].status)
                      /\ RecoveryFilter(xch.orders[i].ref, mode)}

\* _validate_recovery_data
validate_recovery_data(mode, exchange_position, order_analysis, active_orders) ==
    LET has_position == exchange_position.source # "none"
                           /\ Abs(exchange_position.volume) > 0
        has_order_history == order_analysis.total_volume > 0
        pos_volume == Abs(exchange_position.volume)
        order_volume == order_analysis.total_volume
        pos_direction == IF exchange_position.volume > 0 THEN 1 ELSE 2
    IN  [has_position |-> has_position,
         has_orders |-> Cardinality(active_orders) > 0,
         has_order_history |-> has_order_history,
         position_order_consistent |->
             ~(has_position /\ has_order_history
               /\ 10 * Abs(pos_volume - order_volume) > Max(pos_volume, order_volume)),
         direction_consistent |-> ~(has_position /\ pos_direction # mode)]

\* the confidence of _determine_recovery_action, in hundredths
RecoveryConfidence(exchange_position, validation) ==
    Min(100, 50 + (IF exchange_position.source = "exchange_query" THEN 30 ELSE 0)
                + (IF validation.position_order_consistent THEN 20 ELSE 0))

\* _determine_recovery_action
determine_recovery_action(exchange_position, validation) ==
    LET confidence == RecoveryConfidence(exchange_position, validation)
    IN  IF ~validation.direction_consistent
        THEN [action |-> "INVALID_DIRECTION", confidence |-> 10]
        ELSE IF validation.has_position /\ ~validation.has_orders
        THEN [action |-> "RESET_SELL", confidence |-> confidence]
        ELSE IF validation.has_position /\ validation.has_orders
        THEN [action |-> "CONTINUE", confidence |-> confidence]
        ELSE IF ~validation.has_position /\ validation.has_orders
        THEN [action |-> "CANCEL_ORDERS", confidence |-> (confidence * 8) \div 10]
        ELSE [action |-> "NEW_CYCLE", confidence |-> confidence]

NoRecovery ==
    [returned |-> FALSE, action |-> "none", confidence |-> 0, total_position |-> 0,
     avg_cost_price |-> 0, add_count |-> 0, active_orders |-> {},
     source |-> "none", total_volume |-> 0, consistent |-> TRUE]

\* _recover_single_strategy: None when there is neither a position nor a live
\* order
recover_single_strategy(mode, src) ==
    LET exchange_position == get_exchange_position(src)
        order_analysis == analyze_martin_orders(mode)
        active_orders == get_active_martin_orders(mode)
        validation == validate_recovery_data(mode, exchange_position,
                                             order_analysis, active_orders)
        decided == determine_recovery_action(exchange_position, validation)
    IN  IF ~validation.has_position /\ ~validation.has_orders
        THEN [NoRecovery EXCEPT !.source = exchange_position.source,
                                !.total_volume = order_analysis.total_volume]
        ELSE [returned |-> TRUE, action |-> decided.action,
              confidence |-> decided.confidence,
              total_position |-> exchange_position.volume,
              avg_cost_price |-> exchange_position.avg_price,
              add_count |-> order_analysis.add_count,
              active_orders |-> active_orders,
              source |-> exchange_position.source,
              total_volume |-> order_analysis.total_volume,
              consistent |-> validation.position_order_consistent]

(***************************************************************************)
(* AccountExecutor: state after __init__ and add_martin_strategy, on an    *)
(* account that an earlier run of the same executor may have traded        *)
(***************************************************************************)
BootVolumes == {-3, 0, 3, 5}

\* an order the earlier run left behind
EarlierOrder(account, act, n, seq, direction, status, volume, price) ==
    [ref |-> generate_order_reference(account, S_SYMBOL, ActionName(act, n), seq),
     action |-> act, direction |-> direction, status |-> status, price |-> price,
     volume |-> volume, traded |-> IF status = "ALLTRADED" THEN volume ELSE 0]

EarlierOrders(account, mode, hist, live) ==
    (IF hist \in {"open", "open_add"}
     THEN <<EarlierOrder(account, "OPEN", 0, 1, OpenDirection(mode), "ALLTRADED", 3, BootAvg)>>
     ELSE <<>>)
    \o (IF hist = "open_add"
        THEN <<EarlierOrder(account, "ADD", 1, 2, OpenDirection(mode), "ALLTRADED", 1, BootAvg)>>
        ELSE <<>>)
    \o (IF live
        THEN <<EarlierOrder(account, "PROFIT", 0, 3, CloseDirection(mode), "NOTTRADED", 2, BootAvg)>>
        ELSE <<>>)

NoObservation ==
    [sentAfter |-> 0, beside |-> FALSE, src |-> "none", restarts |-> 0, pending |-> 0]

InitR ==
    /\ \E account \in AccountIds, mode \in {1, 2}, hist \in {"none", "open", "open_add"},
          live \in BOOLEAN, volume \in BootVolumes :
         /\ ae = [phase |-> "created", account |-> account, mode |-> mode,
                  avg_price |-> 0, position_size |-> 0, add_count |-> 0,
                  total_margin_used |-> 0, active_orders |-> {},
                  execution_mode |-> "NORMAL", order_sequence |-> 0,
                  order_mapping |-> {}, saved |-> <<>>, rec |-> NoRecovery]
         /\ xch = [volume |-> volume, avg |-> IF volume = 0 THEN 0 ELSE BootAvg,
                   orders |-> EarlierOrders(account, mode, hist, live)]
    /\ evq = <<>>
    /\ obs = NoObservation
    /\ orch = [main |-> "input", waited |-> 0, listed |-> FALSE]
    /\ lad = NoLadder
    /\ IdleC

\* the worker part at rest, for the specifications of the executor
IdleW ==
    /\ w = [f \in {"pc", "restart", "selfAvgPx", "maxsz", "orders"}
                  \cup DOMAIN NoLocals |->
              CASE f = "pc" -> "done"
                [] f = "restart" -> 0
                [] f = "selfAvgPx" -> 0
                [] f = "maxsz" -> 0
                [] f = "orders" -> "unset"
                [] OTHER -> NoLocals[f]]
    /\ stop_flag = FALSE
    /\ stop_event = FALSE
    /\ shutdown_event = FALSE
    /\ command_queue = <<>>
    /\ x = [pos |-> 0, avg |-> PxHigh, sell |-> NoOrder, adds |-> 0]
    /\ h = NoHistory

(***************************************************************************)
(* AccountExecutor: start() with the recovery, then the event handlers     *)
(***************************************************************************)
LiveProfitOrders ==
    {i \in OrderIds : IsActiveStatus(xch.orders[i].status)
                      /\ xch.orders[i].action = "PROFIT"}

\* _send_order of the request req: the reference is generated in any case,
\* the gateway takes the order (r = "ok") or returns no id
SendOrder(mgr, q, req, r) ==
    LET seq == mgr.order_sequence + 1
        id == Len(xch.orders) + 1
        order == [ref |-> generate_order_reference(mgr.account, S_SYMBOL,
                                                   ActionName(req.act, req.n), seq),
                  action |-> req.act, direction |-> req.direction,
                  price |-> req.price,
                  status |-> "NOTTRADED", volume |-> req.volume, traded |-> 0]
    IN  IF r = "ok"
        THEN [mgr |-> [mgr EXCEPT !.order_sequence = seq,
                                  !.order_mapping = @ \cup {id}],
              xch |-> [xch EXCEPT !.orders = Append(@, order)],
              evq |-> Append(q, [type |-> "order", id |-> id, status |-> "NOTTRADED",
                                 direction |-> req.direction, volume |-> req.volume,
                                 price |-> 0]),
              id |-> id]
        ELSE [mgr |-> [mgr EXCEPT !.order_sequence = seq], xch |-> xch, evq |-> q,
              id |-> 0]

\* the caps of the model on sequence numbers and queued events
CanSend(mgr, q) == mgr.order_sequence < MaxSeq /\ Len(q) < MaxEvents

\* recover_martin_strategies for the strategy of the one manager
RecoverStrategies ==
    /\ ae.phase \in {"created", "stopped"}
    /\ \E src \in {"exchange_cache", "exchange_query", "none"} :
         /\ ae' = [ae EXCEPT !.phase = "recovered",
                             !.rec = recover_single_strategy(ae.mode, src)]
         /\ obs' = [obs EXCEPT !.src = src, !.sentAfter = 0]
    /\ UNCHANGED <<xch, evq, varsW, varsM>>

\* the order events that the gateway queues for cancelled orders
RECURSIVE CancelEvents(_)
CancelEvents(ids) ==
    IF ids = {} THEN <<>>
    ELSE LET i == CHOOSE j \in ids : \A k \in ids : j <= k
         IN  <<[type |-> "order", id |-> i, status |-> "CANCELLED",
                direction |-> xch.orders[i].direction,
                volume |-> xch.orders[i].volume, price |-> 0]>>
             \o CancelEvents(ids \ {i})

\* _apply_recovery_results, with _place_recovery_sell_order and
\* _cancel_recovery_orders; price 0 stands for no tick. start() runs it in
\* the caller's thread after the handlers were registered with the event
\* thread: either the whole pass comes before the next event (atomic), or it
\* is left after main_engine.send_order returned the id of the PROFIT order
\* (obs.pending), before register_order
ApplyRecoveryWith(atomic) ==
    /\ LET rec == ae.rec
           m0 == [ae EXCEPT !.phase = "applied"]
           m1 == [m0 EXCEPT !.avg_price = rec.avg_cost_price,
                            !.position_size = rec.total_position,
                            !.add_count = rec.add_count,
                            !.active_orders = rec.active_orders]
       IN  CASE ~rec.returned ->
                  /\ ae' = m0
                  /\ UNCHANGED <<xch, evq, obs>>
             [] rec.returned /\ rec.action = "RESET_SELL" ->
                  \E price \in TickPrices \cup {0}, r \in {"ok", "fail"} :
                    LET m2 == [m1 EXCEPT !.execution_mode = "NORMAL"]
                        req == calculate_profit_order(m2, price)
                        sent == SendOrder(m2, evq, req, r)
                    IN  IF rec.total_position <= 0 \/ price = 0 \/ req = NoReq
                        THEN /\ ae' = m2
                             /\ UNCHANGED <<xch, evq, obs>>
                        ELSE /\ CanSend(m2, evq)
                             /\ ae' = IF sent.id = 0 THEN sent.mgr
                                      ELSE IF atomic
                                      THEN [sent.mgr EXCEPT !.active_orders = @ \cup {sent.id}]
                                      ELSE [sent.mgr EXCEPT !.phase = "registering",
                                                            !.order_mapping = m2.order_mapping]
                             /\ xch' = sent.xch
                             /\ evq' = sent.evq
                             /\ obs' = [obs EXCEPT !.beside =
                                          sent.id # 0 /\ LiveProfitOrders # {},
                                        !.pending = IF atomic THEN 0 ELSE sent.id]
             [] rec.returned /\ rec.action = "CONTINUE" ->
                  /\ ae' = [m1 EXCEPT !.execution_mode = "NORMAL"]
                  /\ UNCHANGED <<xch, evq, obs>>
             [] rec.returned /\ rec.action = "CANCEL_ORDERS" ->
                  /\ Len(evq) + Cardinality(rec.active_orders) <= MaxEvents
                  /\ ae' = [m1 EXCEPT !.execution_mode = "POSITION_ONLY"]
                  /\ xch' = [xch EXCEPT !.orders =
                               [i \in OrderIds |->
                                  IF i \in rec.active_orders
                                     /\ IsActiveStatus(xch.orders[i].status)
                                  THEN [xch.orders[i] EXCEPT !.status = "CANCELLED"]
                                  ELSE xch.orders[i]]]
                  /\ evq' = evq \o CancelEvents(rec.active_orders)
                  /\ UNCHANGED obs
             [] rec.returned /\ rec.action = "NEW_CYCLE" ->
                  /\ ae' = reset_martin_state(m1)
                  /\ UNCHANGED <<xch, evq, obs>>
             [] rec.returned /\ rec.action = "INVALID_DIRECTION" ->
                  /\ ae' = m1
                  /\ UNCHANGED <<xch, evq, obs>>
    /\ UNCHANGED <<varsW, varsM>>

ApplyRecovery ==
    /\ ae.phase = "recovered"
    /\ ApplyRecoveryWith(TRUE)

\* the recovery pass that the event thread may interrupt
ApplyRecoverySend ==
    /\ ae.phase = "recovered"
    /\ ApplyRecoveryWith(FALSE)

\* _send_order and _place_recovery_sell_order go on after send_order:
\* register_order, then the id is appended to active_orders
RegisterRecoveryOrder ==
    /\ ae.phase = "registering"
    /\ ae' = [ae EXCEPT !.phase = "applied",
                        !.order_mapping = @ \cup {obs.pending},
                        !.active_orders = @ \cup {obs.pending}]
    /\ obs' = [obs EXCEPT !.pending = 0]
    /\ UNCHANGED <<xch, evq, varsW, varsM>>

\* start() after _recover_state: the timer runs, the executor is active
StartTimer ==
    /\ ae.phase = "applied"
    /\ ae' = [ae EXCEPT !.phase = "active"]
    /\ UNCHANGED <<xch, evq, obs, varsW, varsM>>

\* stop(), called when no event is pending: the handlers are unregistered,
\* the managers keep their state for the next start()
StopExecutor ==
    /\ ae.phase = "active"
    /\ evq = <<>>
    /\ obs.restarts < MaxRestarts
    /\ ae' = [ae EXCEPT !.phase = "stopped"]
    /\ evq' = <<>>
    /\ obs' = [obs EXCEPT !.restarts = @ + 1]
    /\ UNCHANGED <<xch, varsW, varsM>>

\* emergency_stop: every manager is set to EMERGENCY_EXIT, then
\* _cancel_symbol_orders cancels the registered orders that are still active
EmergencyStop ==
    /\ ae.phase = "active"
    /\ ae.execution_mode # "EMERGENCY_EXIT"
    /\ LET ids == {i \in ae.order_mapping : IsActiveStatus(xch.orders[i].status)}
       IN  /\ Len(evq) + Cardinality(ids) <= MaxEvents
           /\ ae' = [ae EXCEPT !.execution_mode = "EMERGENCY_EXIT"]
           /\ xch' = [xch EXCEPT !.orders =
                        [i \in OrderIds |->
                           IF i \in ids THEN [xch.orders[i] EXCEPT !.status = "CANCELLED"]
                           ELSE xch.orders[i]]]
           /\ evq' = evq \o CancelEvents(ids)
    /\ UNCHANGED <<obs, varsW, varsM>>

\* _check_generate_orders after a handler left the manager as mgr and the
\* queue as q; price 0 stands for no tick
CheckGenerateOrders(mgr, q, price, r) ==
    LET req == IF price = 0 THEN NoReq ELSE calculate_next_action(mgr, price)
        sent == SendOrder(mgr, q, req, r)
    IN  IF req = NoReq
        THEN /\ ae' = mgr
             /\ evq' = q
             /\ UNCHANGED <<xch, obs>>
        ELSE /\ CanSend(mgr, q)
             /\ ae' = sent.mgr
             /\ xch' = sent.xch
             /\ evq' = sent.evq
             /\ obs' = [obs EXCEPT !.sentAfter = @ + 1]

\* AccountExecutor.on_order for the event at the head of the queue
OnOrder ==
    /\ ae.phase \in {"active", "registering"}
    /\ evq # <<>>
    /\ Head(evq).type = "order"
    /\ LET ev == Head(evq)
           ref == xch.orders[ev.id].ref
           m1 == IF ~IsActiveStatus(ev.status) /\ ev.id \in ae.order_mapping
                 THEN [ae EXCEPT !.order_mapping = @ \ {ev.id}]
                 ELSE ae
       IN  IF ~is_my_order(ev.id, ref, ae.order_mapping, ae.account)
           THEN /\ evq' = Tail(evq)
                /\ UNCHANGED <<ae, xch, obs>>
           ELSE IF ~IsMartinCategory(ref)
           THEN /\ ae' = m1
                /\ evq' = Tail(evq)
                /\ UNCHANGED <<xch, obs>>
           ELSE \E price \in TickPrices \cup {0}, r \in {"ok", "fail"} :
                  CheckGenerateOrders(on_order_update(m1, ev), Tail(evq), price, r)
    /\ UNCHANGED <<varsW, varsM>>

\* AccountExecutor.on_trade for the event at the head of the queue
OnTrade ==
    /\ ae.phase \in {"active", "registering"}
    /\ evq # <<>>
    /\ Head(evq).type = "trade"
    /\ \E price \in TickPrices \cup {0}, r \in {"ok", "fail"} :
         CheckGenerateOrders(on_trade_update(ae, Head(evq)), Tail(evq), price, r)
    /\ UNCHANGED <<varsW, varsM>>

(***************************************************************************)
(* The exchange and the gateway of the executor                            *)
(***************************************************************************)
\* a live order fills at its price: the gateway queues the order event and
\* the trade event
ExchangeFill ==
    /\ ae.phase \in {"active", "stopped", "registering"}
    /\ Len(evq) + 2 <= MaxEvents
    /\ \E i \in OrderIds :
         LET o == xch.orders[i]
             price == o.price
             v == IF o.direction = "LONG" THEN xch.volume + o.volume
                  ELSE xch.volume - o.volume
         IN  /\ IsActiveStatus(o.status)
             /\ Abs(v) <= MaxVolume
             /\ xch' = [xch EXCEPT !.orders[i].status = "ALLTRADED",
                                   !.orders[i].traded = o.volume,
                                   !.volume = v,
                                   !.avg = IF v = 0 THEN 0
                                           ELSE IF xch.avg = 0 THEN price ELSE xch.avg]
             /\ evq' = IF ae.phase = "stopped" THEN evq ELSE
                      evq \o <<[type |-> "order", id |-> i, status |-> "ALLTRADED",
                                 direction |-> o.direction, volume |-> o.volume,
                                 price |-> price],
                                [type |-> "trade", id |-> i, status |-> "none",
                                 direction |-> o.direction, volume |-> o.volume,
                                 price |-> price]>>
    /\ UNCHANGED <<ae, obs, varsW, varsM>>

\* the orders on the symbol that this strategy did not send
ForeignOrders == {i \in OrderIds : xch.orders[i].action = "FOREIGN"}

\* an order on the same symbol that is not this strategy's fills: a manual
\* order without reference, an order placed by hand or by another program
\* with a reference of its own that names the account ("X_<account>_1"), or
\* the OPEN order that the strategy of the other direction sent through the
\* executor's order manager; the gateway queues its order event and its
\* trade event like any other
ForeignFill ==
    /\ ae.phase = "active"
    /\ Len(evq) + 2 <= MaxEvents
    /\ Cardinality(ForeignOrders) < MaxForeign
    /\ \E kind \in {"manual", "hand", "other"}, d \in {"LONG", "SHORT"}, price \in TickPrices :
         LET id == Len(xch.orders) + 1
             seq == ae.order_sequence + 1
             v == IF d = "LONG" THEN xch.volume + size_tick ELSE xch.volume - size_tick
             order == [ref |-> IF kind = "manual" THEN <<>>
                               ELSE IF kind = "hand"
                               THEN <<"X">> \o Underscore \o ae.account
                                        \o Underscore \o <<"1">>
                               ELSE generate_order_reference(ae.account, S_SYMBOL,
                                                             S_OPEN, seq),
                       action |-> "FOREIGN", direction |-> d, price |-> price,
                       status |-> "ALLTRADED", volume |-> size_tick,
                       traded |-> size_tick]
         IN  /\ kind = "other" => d = OpenDirection(3 - ae.mode) /\ seq <= MaxSeq
             /\ Abs(v) <= MaxVolume
             /\ ae' = IF kind = "other"
                      THEN [ae EXCEPT !.order_sequence = seq,
                                      !.order_mapping = @ \cup {id}]
                      ELSE ae
             /\ xch' = [xch EXCEPT !.orders = Append(@, order), !.volume = v,
                                   !.avg = IF v = 0 THEN 0
                                           ELSE IF xch.avg = 0 THEN price ELSE xch.avg]
             /\ evq' = evq \o <<[type |-> "order", id |-> id, status |-> "ALLTRADED",
                                  direction |-> d, volume |-> size_tick,
                                  price |-> price],
                                 [type |-> "trade", id |-> id, status |-> "none",
                                  direction |-> d, volume |-> size_tick,
                                  price |-> price]>>
    /\ UNCHANGED <<obs, varsW, varsM>>

(***************************************************************************)
(* Specification of the executor                                           *)
(***************************************************************************)
InitExecutor == IdleW /\ InitR

NextR ==
    \/ RecoverStrategies \/ ApplyRecovery \/ StartTimer
    \/ OnOrder \/ OnTrade
    \/ ExchangeFill

SpecR == InitExecutor /\ [][NextR]_vars

\* the executor that is stopped and started again in one process
NextRestart == NextR \/ StopExecutor

SpecRestart == InitExecutor /\ [][NextRestart]_vars

\* _timer_loop: every timer_interval seconds _save_state writes the state of
\* the managers to martin_states.json
TimerSave ==
    /\ ae.phase = "active"
    /\ ae' = [ae EXCEPT !.saved = save_martin_states(ae)]
    /\ UNCHANGED <<xch, evq, obs, varsW, varsM>>

\* start() with the event thread running beside the recovery pass
NextRace ==
    \/ RecoverStrategies \/ ApplyRecoverySend \/ RegisterRecoveryOrder
    \/ StartTimer \/ OnOrder \/ OnTrade \/ ExchangeFill

SpecRace == InitExecutor /\ [][NextRace]_vars

\* the executor on a symbol that other orders trade as well, started on an
\* account without earlier orders
InitForeign == InitExecutor /\ xch.orders = <<>>

NextForeign == NextR \/ ForeignFill

SpecForeign == InitForeign /\ [][NextForeign]_vars

SpecEmergency == InitForeign /\ [][NextR \/ EmergencyStop]_vars

SpecPersist == InitForeign /\ [][NextR \/ TimerSave]_vars

(***************************************************************************)
(* Properties of the executor                                              *)
(***************************************************************************)
\* what is true on the exchange when the recovery pass has run
PositionFound == xch.volume # 0 /\ obs.src # "none"
NoPosition == xch.volume = 0
LiveOrders == {i \in OrderIds : IsActiveStatus(xch.orders[i].status)}
DirectionMatches == xch.volume = 0 \/ (IF xch.volume > 0 THEN 1 ELSE 2) = ae.mode
FilledOpenVolume ==
    SumTraded({i \in OrderIds : /\ xch.orders[i].status = "ALLTRADED"
                                /\ xch.orders[i].action \in {"OPEN", "ADD"}})

\* C2: at most one PROFIT order of the strategy is live on the exchange (the
\* runs in which the recovery put one beside a live one are left to C7).
C2_SingleProfitOrder == ~obs.beside => Cardinality(LiveProfitOrders) <= 1

\* C7: the recovery submits no PROFIT order while a PROFIT order that the
\* strategy placed earlier is live.
C7_RecoveryNotBeside == ~obs.beside

\* C8: after a recovery that found the position on the wrong side, the
\* strategy sends no order.
C8_InvalidSendsNothing ==
    ae.phase = "active" /\ ae.rec.action = "INVALID_DIRECTION" => obs.sentAfter = 0

\* C9: with a consistent direction the recovery pass yields CONTINUE for a
\* position with a live order, RESET_SELL for a position without, CANCEL_ORDERS
\* for a live order without position, NEW_CYCLE for neither.
C9_ActionTable ==
    ae.phase = "recovered" /\ DirectionMatches /\ (PositionFound \/ NoPosition)
        => ae.rec.action =
             IF PositionFound
             THEN IF LiveOrders # {} THEN "CONTINUE" ELSE "RESET_SELL"
             ELSE IF LiveOrders # {} THEN "CANCEL_ORDERS" ELSE "NEW_CYCLE"

\* C10: when the position and the filled open volume differ by more than a
\* tenth of the larger, the pass returns an action with confidence below 0.5.
C10_InconsistentBelowHalf ==
    /\ ae.phase = "recovered"
    /\ PositionFound
    /\ FilledOpenVolume > 0
    /\ 10 * Abs(Abs(xch.volume) - FilledOpenVolume)
          > Max(Abs(xch.volume), FilledOpenVolume)
    => ae.rec.returned /\ ae.rec.confidence < 50

\* C11: when the recovery pass found the position and the filled volume
\* inconsistent, the strategy is not left in NORMAL mode and sends no order.
C11_InconsistentSuspended ==
    /\ ae.phase \in {"applied", "active"}
    /\ ae.rec.returned
    /\ ~ae.rec.consistent
    /\ ae.rec.action # "INVALID_DIRECTION"
    => ae.execution_mode # "NORMAL" /\ obs.sentAfter = 0

\* C12: when the recovery pass has been applied, the position size and the
\* average cost of the strategy are those of the exchange.
C12_RecoveredFromExchange ==
    ae.phase = "applied" /\ (PositionFound \/ NoPosition)
        => ae.position_size = xch.volume /\ ae.avg_price = xch.avg


\* C13: when the close_position command is processed, the taker order that
\* flattens the position is sent after a cancel of the PROFIT order and a
\* cancel that names every live ADD order, and the worker is stopped
C13_CloseCancelsBeforeFlatten ==
    h.last.kind = "close" /\ h.last.path = "close"
        => h.last.cSell /\ h.last.cAdds = "named" /\ stop_flag


\* C14: the flatten that trade() sends at the end of a cycle comes only when
\* close_wait was processed and the position is down to minSz, after a cancel
\* that names every live ADD order, and with the worker stopped
C14_CloseWaitFinishesCycle ==
    h.last.kind = "close" /\ h.last.path = "trade"
        => /\ ~stop_event
           /\ h.last.pos = minSz
           /\ h.last.cAdds = "named"
           /\ stop_flag


\* C15: the market order that opens the next cycle after the PROFIT order
\* filled is sent after a cancel that names every ADD order the finished
\* cycle left on the book
C15_NewCycleAfterLadderCancel ==
    h.last.kind = "open" /\ w.omode = 1 => h.last.cAdds = "named"


\* C16: when trade() has finished its repair branch on an up-to-date reading
\* of the position, the live PROFIT order is the replacement: it is priced
\* from the current average cost and sized to the current position
C16_ProfitFollowsAddFill ==
    /\ w.pc = "hourly"
    /\ w.path = "trade"
    /\ w.pos = x.pos
    /\ w.avgPx = x.avg
    /\ w.older.st # "None"
    /\ IsLive(x.sell.st)
    /\ x.pos > minSz
    => /\ x.sell.avg = x.avg
       /\ x.sell.sz = SellAmount(x.pos, w.maxsz)


\* C17: the number of filled ADD levels a strategy counts never exceeds the
\* number of ADD levels of its configuration
C17_AddCountBounded ==
    ae.add_count <= adding_number_R


\* C18: every step in which on_trade handles the fill of an OPEN or ADD order
\* of the strategy adds the size of the fill to position_size and its cost to
\* avg_price * position_size (up to the rounding of the average), for a long
\* and for a short strategy; so after any sequence of such fills since the
\* position was flat the totals are the sums over the fills
C18_FillsAccumulate ==
    [][(/\ ae.phase = "active"
        /\ evq # <<>>
        /\ Head(evq).type = "trade"
        /\ Len(evq') <= Len(evq)
        /\ xch.orders[Head(evq).id].action \in {"OPEN", "ADD"}
        /\ is_my_order(Head(evq).id, xch.orders[Head(evq).id].ref,
                       ae.order_mapping, ae.account)
        /\ Head(evq).direction = OpenDirection(ae.mode))
       => /\ ae'.position_size = ae.position_size + Head(evq).volume
          /\ 2 * Abs(ae'.avg_price * ae'.position_size
                       - (ae.avg_price * ae.position_size
                            + Head(evq).price * Head(evq).volume))
                <= ae'.position_size]_vars


\* C19: a step in which on_order or on_trade handles the event of an order
\* that is not this strategy's (a manual order, or an order of the strategy
\* of the other direction) leaves the strategy's position state unchanged
C19_ForeignFillIgnored ==
    [][(/\ ae.phase = "active"
        /\ evq # <<>>
        /\ Len(evq') <= Len(evq)
        /\ Head(evq).id \in ForeignOrders)
       => /\ ae'.position_size = ae.position_size
          /\ ae'.avg_price = ae.avg_price
          /\ ae'.add_count = ae.add_count
          /\ ae'.active_orders = ae.active_orders]_vars


\* C20: every id in the ledger (order_mapping) belongs to an order that is
\* still live or whose terminal order event is still waiting in the queue:
\* once the terminal event was handled, the entry is gone
C20_LedgerDropsTerminal ==
    \A i \in ae.order_mapping :
        \/ IsActiveStatus(xch.orders[i].status)
        \/ \E k \in 1..Len(evq) : /\ evq[k].type = "order"
                                  /\ evq[k].id = i
                                  /\ ~IsActiveStatus(evq[k].status)

\* C21: the references of the orders on the exchange, those of the earlier
\* run of the executor and those of this run, are pairwise different, and
\* the four-digit sequence numbers at their ends strictly increase in the
\* order in which the references were generated
C21_ReferencesUnique ==
    LET DigitVal(c) == (CHOOSE k \in 1..10 : Digits[k] = c) - 1
        SeqOf(ref) == 1000 * DigitVal(ref[Len(ref) - 3])
                        + 100 * DigitVal(ref[Len(ref) - 2])
                        + 10 * DigitVal(ref[Len(ref) - 1])
                        + DigitVal(ref[Len(ref)])
    IN  \A i, j \in OrderIds :
            i < j => /\ xch.orders[i].ref # xch.orders[j].ref
                     /\ SeqOf(xch.orders[i].ref) < SeqOf(xch.orders[j].ref)


\* C22: an order that is_my_order reports as this account's carries a
\* reference that starts with one of the system's prefixes (MARTIN_, TREND_,
\* MANUAL_) and names the account
C22_MineBySystemReference ==
    \A i \in OrderIds :
        is_my_order(i, xch.orders[i].ref, ae.order_mapping, ae.account)
            => /\ \/ StartsWith(S_MARTIN \o Underscore, xch.orders[i].ref)
                  \/ StartsWith(<<"T", "R", "E", "N", "D", "_">>, xch.orders[i].ref)
                  \/ StartsWith(<<"M", "A", "N", "U", "A", "L", "_">>, xch.orders[i].ref)
               /\ Contains(Underscore \o ae.account \o Underscore, xch.orders[i].ref)


\* the entry of the strategy in what load_martin_states reads back holds the
\* values of the manager mgr
C23_SnapshotOf(mgr) ==
    /\ Len(load_martin_states(mgr.saved)) = 1
    /\ load_martin_states(mgr.saved)[1].key = StrategyKey(mgr.mode)
    /\ load_martin_states(mgr.saved)[1].avg_price = mgr.avg_price
    /\ load_martin_states(mgr.saved)[1].position_size = mgr.position_size
    /\ load_martin_states(mgr.saved)[1].add_count = mgr.add_count

\* C23: a step that resets the position state (full close) or changes the
\* execution mode leaves a snapshot on disk that holds the new state
C23_CriticalChangeSaved ==
    [][(\/ ae'.execution_mode # ae.execution_mode
        \/ ae.position_size # 0 /\ ae'.position_size = 0)
       => C23_SnapshotOf(ae') /\ ae'.saved[1].execution_mode = ae'.execution_mode]_vars


C25_WorkerTerminates ==
    (stop_flag \/ shutdown_event) ~> (w.pc = "done")


\* C26: a join of main() on a worker, on the stop path or on the exit path,
\* comes to an end
C26_JoinsEnd ==
    (orch.main \in {"stop_join", "retry_join", "exit_join"})
        ~> (orch.main \in {"input", "exited"})


\* C27: an OPEN or ADD order of more than one lot that the executor sends
\* stays within its margin: volume * price <= margin * leverage, with the
\* margin of the first position for OPEN and of the ladder level for ADD
C27_SizeWithinMargin ==
    \A i \in OrderIds :
        LET o == xch.orders[i]
            level == CHOOSE n \in 1..adding_number_R :
                         Contains(S_ADD_ \o <<Digits[n + 1]>> \o Underscore, o.ref)
        IN  /\ (o.action = "OPEN" /\ o.volume > size_tick)
                  => o.volume * o.price <= first_margin_R * lever_R
            /\ (o.action = "ADD" /\ o.volume > size_tick)
                  => o.volume * o.price
                       <= first_margin_add * Power(amount_multiplier, level - 1) * lever_R


\* two placements of the ladder on the same parameters, anchor price and
\* instrument data
InitLadder ==
    /\ IdleW
    /\ IdleR
    /\ orch = [main |-> "input", waited |-> 0, listed |-> FALSE]
    /\ lad \in LadderInputs
    /\ IdleC

SpecLadder == InitLadder /\ [][PlaceLadder]_vars

\* C28: two placements of the ladder on the same inputs send their ADD
\* orders at the same prices
C28_LadderDeterministic ==
    (lad.first # <<>> /\ lad.second # <<>>) => lad.first = lad.second


\* C29: when the worker asks for its PROFIT order and the exchange has no
\* such order, or has it filled or canceled, while the position is above one
\* lot and the kill switch is not set, the worker comes to sell_order or to
\* another placement of the PROFIT order (or the order is live again, the
\* position is down to one lot, or the worker was told to stop)
C29_ProfitRestored ==
    (/\ w.pc = "query" /\ w.qtarget = "sell"
     /\ x.sell.st \in {"none", "filled", "canceled"}
     /\ x.pos > minSz
     /\ ~shutdown_event /\ ~stop_flag)
      ~> (\/ w.pc \in {"sell_calc", "pl_limit1", "pl_limit2", "pl_market",
                       "pl_market_exc", "repos_place", "open_sell"}
          \/ IsLive(x.sell.st)
          \/ x.pos <= minSz
          \/ shutdown_event \/ stop_flag)


\* C30: at startup the worker sends its opening order only on an account
\* without a position, and a worker that starts without opening finds a
\* position
C30_OpenIffNoPosition ==
    /\ (w.pc = "open_market" /\ w.oret = "run_getpos") => x.pos = 0
    /\ (w.pc = "run_getpos" /\ w.restart > 0) => x.pos > 0


(***************************************************************************)
(* get_order_with_lock called by several worker threads: global_lock, the  *)
(* sleeps and the time between two calls of tradeAPI.get_order             *)
(***************************************************************************)

\* a worker calls get_order_with_lock: retry_count = 0, success = False
LockEnter(t) ==
    /\ gl.pc[t] = "returned"
    /\ ~gl.shutdown
    /\ gl' = [gl EXCEPT !.pc[t] = "top", !.retry_count[t] = 0]
    /\ UNCHANGED <<varsW, varsR, orch, lad, cq, fn, tm>>

\* while not success and not shutdown_event.is_set(): with global_lock:
\* tradeAPI.get_order(...) is sent
LockQuery(t) ==
    /\ gl.pc[t] = "top"
    /\ ~gl.shutdown
    /\ gl.holder = 0
    /\ gl' = [gl EXCEPT !.holder = t, !.pc[t] = "call",
                        !.inflight = @ + 1,
                        !.close = @ \/ gl.since < SpacingSleep,
                        !.since = 0]
    /\ UNCHANGED <<varsW, varsR, orch, lad, cq, fn, tm>>

\* the loop ends because the kill switch is set: return None
LockLoopExit(t) ==
    /\ gl.pc[t] = "top"
    /\ gl.shutdown
    /\ gl' = [gl EXCEPT !.pc[t] = "returned"]
    /\ UNCHANGED <<varsW, varsR, orch, lad, cq, fn, tm>>

\* the answer has data: time.sleep(0.05) inside the with block
LockData(t) ==
    /\ gl.pc[t] = "call"
    /\ gl' = [gl EXCEPT !.pc[t] = "pace", !.rem[t] = SpacingSleep,
                        !.inflight = @ - 1]
    /\ UNCHANGED <<varsW, varsR, orch, lad, cq, fn, tm>>

\* the sleep is over: return result leaves the with block
LockPaced(t) ==
    /\ gl.pc[t] = "pace"
    /\ gl.rem[t] = 0
    /\ gl' = [gl EXCEPT !.pc[t] = "returned", !.holder = 0]
    /\ UNCHANGED <<varsW, varsR, orch, lad, cq, fn, tm>>

\* the answer has no data: the with block is left and the loop goes round
LockNoData(t) ==
    /\ gl.pc[t] = "call"
    /\ gl' = [gl EXCEPT !.pc[t] = "top", !.holder = 0, !.inflight = @ - 1]
    /\ UNCHANGED <<varsW, varsR, orch, lad, cq, fn, tm>>

\* get_order raises: the with block is left, then the except clause sleeps
\* (one second; the exponential branch sleeps no less)
LockException(t) ==
    /\ gl.pc[t] = "call"
    /\ gl' = [gl EXCEPT !.pc[t] = "backoff", !.holder = 0, !.inflight = @ - 1,
                        !.rem[t] = ErrorSleep]
    /\ UNCHANGED <<varsW, varsR, orch, lad, cq, fn, tm>>

\* after the sleep: retry_count += 1; if retry_count > 5: kill switch, raise
LockBackoffDone(t) ==
    /\ gl.pc[t] = "backoff"
    /\ gl.rem[t] = 0
    /\ LET rc == gl.retry_count[t] + 1
       IN gl' = [gl EXCEPT !.retry_count[t] = rc,
                           !.shutdown = @ \/ rc > RetryLimit,
                           !.pc[t] = IF rc > RetryLimit THEN "returned" ELSE "top"]
    /\ UNCHANGED <<varsW, varsR, orch, lad, cq, fn, tm>>

\* time passes by one unit
LockTick ==
    /\ \E t \in Workers : gl.rem[t] > 0
    /\ gl' = [gl EXCEPT !.since = Min(@ + 1, SpacingSleep),
                        !.rem = [t \in Workers |-> Max(gl.rem[t] - 1, 0)]]
    /\ UNCHANGED <<varsW, varsR, orch, lad, cq, fn, tm>>

NextLock ==
    \/ \E t \in Workers :
         \/ LockEnter(t) \/ LockQuery(t) \/ LockLoopExit(t) \/ LockData(t)
         \/ LockPaced(t) \/ LockNoData(t) \/ LockException(t)
         \/ LockBackoffDone(t)
    \/ LockTick

InitLock ==
    /\ IdleW
    /\ IdleR
    /\ orch = [main |-> "input", waited |-> 0, listed |-> FALSE]
    /\ lad = NoLadder
    /\ gl = NoQueries
    /\ cq = NoCommands
    /\ fn = NoCall
    /\ tm = "none"

SpecLock == InitLock /\ [][NextLock]_vars

\* C31: order-status queries of all workers are mutually exclusive (never
\* two in flight) and two consecutive queries, whatever their outcome, are
\* at least the minimum spacing apart
C31_QueriesExclusiveAndSpaced ==
    /\ gl.inflight <= 1
    /\ ~gl.close

(***************************************************************************)
(* The command queues: main() puts, each worker takes from its own queue   *)
(* once per turn of the loop of run()                                      *)
(***************************************************************************)

\* a queue that hands out its newest item first (not what Queue does)
C32_GetNewest(q) == [item |-> q[Len(q)], rest |-> SubSeq(q, 1, Len(q) - 1)]

\* Queue.get_nowait on a queue that is not empty: the oldest item
get_nowait(q) == [item |-> Head(q), rest |-> Tail(q)]

\* main(): strategy_item['command_queue'].put(action), for the item of the
\* worker the operator named (stop) or for every item (status)
QueuePut(t, a) ==
    /\ cq.n < MaxCommands
    /\ LET c == [id |-> cq.n + 1, action |-> a]
       IN cq' = [cq EXCEPT !.n = @ + 1,
                           !.q[t] = Append(@, c),
                           !.put[t] = Append(@, c.id)]
    /\ UNCHANGED <<varsW, varsR, orch, lad, gl, fn, tm>>

\* run(): the loop condition holds and trade() runs; it returns, or it
\* raises and the except clause skips process_commands for this turn
QueueTrade(t) ==
    /\ cq.pc[t] = "trade"
    /\ \E raised \in BOOLEAN :
         cq' = [cq EXCEPT !.pc[t] = IF raised THEN "sleep" ELSE "commands",
                          !.took[t] = 0]
    /\ UNCHANGED <<varsW, varsR, orch, lad, gl, fn, tm>>

\* process_commands: one get_nowait; Empty returns at once
QueueProcess(t) ==
    /\ cq.pc[t] = "commands"
    /\ IF cq.q[t] = <<>>
       THEN cq' = [cq EXCEPT !.pc[t] = "sleep"]
       ELSE LET g == get_nowait(cq.q[t])
                a == g.item.action
            IN cq' = [cq EXCEPT
                 !.q[t] = g.rest,
                 !.got[t] = Append(@, g.item.id),
                 !.took[t] = @ + 1,
                 !.stop_flag[t] = @ \/ a = "close_position",
                 !.stop_event[t] = @ /\ a # "close_wait",
                 !.pc[t] = IF a = "close_position" THEN "closing" ELSE "sleep"]
    /\ UNCHANGED <<varsW, varsR, orch, lad, gl, fn, tm>>

\* close_position() comes back (it may also never do so)
QueueClosed(t) ==
    /\ cq.pc[t] = "closing"
    /\ cq' = [cq EXCEPT !.pc[t] = "sleep"]
    /\ UNCHANGED <<varsW, varsR, orch, lad, gl, fn, tm>>

\* after the sleep the loop condition is tested again
QueueLoop(t) ==
    /\ cq.pc[t] = "sleep"
    /\ cq' = [cq EXCEPT !.pc[t] = IF cq.stop_flag[t] THEN "done" ELSE "trade"]
    /\ UNCHANGED <<varsW, varsR, orch, lad, gl, fn, tm>>

NextQueue ==
    \E t \in Workers :
        \/ \E a \in CommandActions : QueuePut(t, a)
        \/ QueueTrade(t) \/ QueueProcess(t) \/ QueueClosed(t) \/ QueueLoop(t)

SpecQueue == InitLock /\ [][NextQueue]_vars

\* C32: what a worker has taken from its queue is, in order, the beginning
\* of what was put on that queue (so every command is taken at most once,
\* oldest first, and by the worker that owns the queue), and a worker takes
\* at most one command in one turn of its loop
C32_CommandsOnceInOrder ==
    \A t \in Workers :
        /\ Len(cq.got[t]) <= Len(cq.put[t])
        /\ cq.got[t] = SubSeq(cq.put[t], 1, Len(cq.got[t]))
        /\ cq.took[t] <= 1

\* a worker has taken its second command while a later one still waits, and
\* another worker has taken a command of its own
C32_Witness ==
    \E t, u \in Workers :
        /\ t # u
        /\ Len(cq.got[t]) = 2
        /\ cq.took[t] = 1
        /\ Len(cq.got[u]) >= 1

(***************************************************************************)
(* calculate_next_action as a function of the state of the manager and of  *)
(* the price                                                               *)
(***************************************************************************)

ExecutionModes == {"NORMAL", "POSITION_ONLY", "EMERGENCY_EXIT", "SUSPENDED"}

\* the states of a MartinManager the function is called on
ManagerStates ==
    [mode : {1, 2}, execution_mode : ExecutionModes,
     position_size : {-3, 0, 1, 3}, avg_price : {0, BootAvg},
     add_count : 0..adding_number_R, total_margin_used : {0, max_total_margin},
     active_orders : {{}, {1}}]

InitCall ==
    /\ IdleW
    /\ IdleR
    /\ orch = [main |-> "input", waited |-> 0, listed |-> FALSE]
    /\ lad = NoLadder
    /\ gl = NoQueries
    /\ cq = NoCommands
    /\ tm = "none"
    /\ \E mgr \in ManagerStates, price \in TickPrices :
         fn = [called |-> FALSE, mgr |-> mgr, price |-> price]

\* req = martin_manager.calculate_next_action(current_price)
CallNextAction ==
    /\ ~fn.called
    /\ fn' = [called |-> TRUE, mgr |-> fn.mgr, price |-> fn.price,
              req |-> calculate_next_action(fn.mgr, fn.price)]
    /\ UNCHANGED <<varsW, varsR, orch, lad, gl, cq, tm>>

SpecCall == InitCall /\ [][CallNextAction]_vars

\* C33: calculate_next_action returns no order in SUSPENDED, no OPEN and no
\* ADD order in POSITION_ONLY, and in EMERGENCY_EXIT nothing but the taker
\* order that closes the whole position
C33_ModeGatesActions ==
    fn.called =>
        /\ fn.mgr.execution_mode = "SUSPENDED" => fn.req = NoReq
        /\ fn.mgr.execution_mode = "POSITION_ONLY"
              => fn.req.act \notin {"OPEN", "ADD"}
        /\ fn.mgr.execution_mode = "EMERGENCY_EXIT"
              => \/ fn.req = NoReq
                 \/ /\ fn.req.act = "EXIT"
                    /\ fn.req.direction = CloseDirection(fn.mgr.mode)
                    /\ fn.req.volume = fn.mgr.position_size

\* a call in EMERGENCY_EXIT on a position of 3 returned the closing order
C33_Witness ==
    /\ fn.called
    /\ fn.mgr.execution_mode = "EMERGENCY_EXIT"
    /\ fn.mgr.position_size = 3
    /\ fn.req.act = "EXIT"

\* the ADD orders of the strategy that filled in the cycle the position
\* belongs to: none when the account is flat
C34_CycleAdds ==
    IF xch.volume = 0 THEN {}
    ELSE {i \in OrderIds : /\ xch.orders[i].action = "ADD"
                           /\ xch.orders[i].direction = OpenDirection(ae.mode)
                           /\ xch.orders[i].status = "ALLTRADED"}

\* C34: the add count a recovery pass returns is the number of ADD orders
\* of the strategy that filled in the current cycle; the OPEN fill and the
\* fills of cycles that are over are not counted
C34_AddCountOfCycle ==
    [][(ae.phase # "recovered" /\ ae'.phase = "recovered" /\ ae'.rec.returned)
       => ae'.rec.add_count = Cardinality(C34_CycleAdds)]_vars

\* martingale_strategy: older_margin of the ADD order of level k
older_margin(k) == first_margin_add * Power(amount_multiplier, k - 1)

\* C35: at every level i of 1..adding_number the price of the ladder is the
\* price of the level before times (1 -+ opp_ratio * price_multiple^i),
\* minus for long and plus for short, and the margin is
\* first_margin_add * amount_multiplier^i
C35_LadderExponentIsLevel ==
    lad.first # <<>> =>
        \A i \in 1..adding_number :
            /\ older_price(lad, i) =
                 IF lad.mode = 1
                 THEN (older_price(lad, i - 1) * (1000 - lad.opp * Power(lad.pm, i))) \div 1000
                 ELSE (older_price(lad, i - 1) * (1000 + lad.opp * Power(lad.pm, i))) \div 1000
            /\ older_margin(i) = first_margin_add * Power(amount_multiplier, i)

\* a step of on_order or on_trade: the event at the head of the queue is
\* taken off
C36_EventHandled ==
    /\ evq # <<>>
    /\ Len(evq') >= Len(evq) - 1
    /\ SubSeq(evq', 1, Len(evq) - 1) = Tail(evq)
    /\ ~(Len(evq') >= Len(evq) /\ SubSeq(evq', 1, Len(evq)) = evq)
    /\ ae.phase \in {"active", "registering"}

\* C36: the handling of an order or trade event leaves the execution mode
\* as it is, also when the fill closes the position; so no OPEN order goes
\* out while the mode set was EMERGENCY_EXIT or POSITION_ONLY
C36_FillKeepsMode ==
    [][C36_EventHandled => ae'.execution_mode = ae.execution_mode]_vars

\* the taker close orders of the strategy that the exchange has not filled
C37_OpenExits ==
    {i \in OrderIds : xch.orders[i].action = "EXIT"
                      /\ IsActiveStatus(xch.orders[i].status)}

\* C37: while the strategy is in EMERGENCY_EXIT the close orders it has
\* submitted and that are not filled add up to no more than its position
C37_ExitWithinPosition ==
    LET RECURSIVE Total(_)
        Total(ids) == IF ids = {} THEN 0
                      ELSE LET i == CHOOSE j \in ids : TRUE
                           IN  xch.orders[i].volume + Total(ids \ {i})
    IN  ae.execution_mode = "EMERGENCY_EXIT"
           => Total(C37_OpenExits) <= Max(ae.position_size, 0)

\* the live orders that the strategy of the manager submitted itself
C38_OwnLive ==
    {i \in OrderIds :
       /\ IsActiveStatus(xch.orders[i].status)
       /\ xch.orders[i].action \in {"OPEN", "ADD", "PROFIT", "EXIT"}
       /\ \E seq \in 1..MaxSeq :
            xch.orders[i].ref =
              generate_order_reference(ae.account, S_SYMBOL,
                  IF xch.orders[i].action = "ADD"
                  THEN S_ADD_ \o <<xch.orders[i].ref[Len(xch.orders[i].ref) - 5]>>
                  ELSE ActionName(xch.orders[i].action, 0), seq)}

\* C38: the live orders a recovery pass lists for a strategy are exactly
\* the live orders that strategy submitted with a reference of
\* generate_order_reference: none is missing, none of another strategy is in
C38_LiveOrdersListed ==
    [][(ae.phase # "recovered" /\ ae'.phase = "recovered")
       => ae'.rec.active_orders = C38_OwnLive]_vars

\* C39: one call of get_position_info submits at most one market order of
\* the minimum lot, however long no matching position is reported
C39_OneMinLotOrder == h.minLots <= 1

(***************************************************************************)
(* start() and the timer thread it creates, step by step                   *)
(***************************************************************************)

\* _start_timer: the thread with target _timer_loop is created and started
StartTimerThread ==
    /\ ae.phase = "applied"
    /\ tm = "none"
    /\ ae' = [ae EXCEPT !.phase = "timer_started"]
    /\ tm' = "check"
    /\ UNCHANGED <<xch, evq, obs, varsW, orch, lad, gl, cq, fn>>

\* start(): self.active = True, the last assignment before it returns
StartSetActive ==
    /\ ae.phase = "timer_started"
    /\ ae' = [ae EXCEPT !.phase = "active"]
    /\ UNCHANGED <<xch, evq, obs, varsW, varsM>>

\* _timer_loop: while self.active
TimerLoopCheck ==
    /\ tm = "check"
    /\ tm' = IF ae.phase = "active" THEN "work" ELSE "exited"
    /\ UNCHANGED <<varsW, varsR, orch, lad, gl, cq, fn>>

\* _timer_loop: heartbeat, _save_state, _health_check, sleep
TimerLoopWork ==
    /\ tm = "work"
    /\ ae' = [ae EXCEPT !.saved = save_martin_states(ae)]
    /\ tm' = "check"
    /\ UNCHANGED <<xch, evq, obs, varsW, orch, lad, gl, cq, fn>>

SpecTimer ==
    InitForeign /\ [][\/ RecoverStrategies \/ ApplyRecovery
                      \/ StartTimerThread \/ StartSetActive
                      \/ TimerLoopCheck \/ TimerLoopWork
                      \/ OnOrder \/ OnTrade \/ ExchangeFill]_vars

\* C40: once start() has returned the timer thread is running; it has not
\* left its loop on a first reading of active = False
C40_TimerRunsAfterStart == ae.phase = "active" => tm \in {"check", "work"}
====
